---- MODULE Spec2Model ----
(***************************************************************************)
(* Model of the SSE connection manager (backend/app/core/sse.py) and of    *)
(* the streaming endpoint that drives it (backend/app/routers/events.py).  *)
(*                                                                         *)
(* Tasks are asyncio tasks.  Every `await` of the source that can hand     *)
(* control to another task is a scheduling point: acquiring a lock,        *)
(* putting into or getting from a queue, and a generator's yield.  One     *)
(* action runs a task from one scheduling point to the next; a critical    *)
(* section is two actions (the acquire, then the body with the release),   *)
(* so that a held lock is a visible state.                                 *)
(***************************************************************************)
EXTENDS Integers, Sequences, FiniteSets, TLC

\* ---------------------------------------------------------------- bounds
MaxCalls == 3          \* top-level calls in a run of Spec
MaxStreamCalls == 3    \* top-level calls in a run of SpecStream
MaxBeats == 1          \* timeouts of a wait on a queue in a run of SpecStream
MaxPublishes == 105    \* publishes in a run of SpecBuffer

\* ------------------------------------------------------------- constants
history_limit == 100
HEARTBEAT_INTERVAL == 30

Tasks == {"t1", "t2", "t3"}
Callers == {"t1", "t2"}      \* the tasks that call the manager in Spec
Producers == {"t1", "t2"}    \* the tasks that publish in SpecRace
Clients == {"t3"}            \* the task that serves the endpoint
Topics == {"A", "B"}
DomainTypes == {"item_added"}
Payload == 41
None == <<>>

VARIABLES
    connections,     \* _connections: slug -> set of queues (keys: slugs present)
    event_history,   \* _event_history: slug -> list of events
    locks,           \* _locks: slug -> lock object
    global_lock,     \* _global_lock is held
    locked,          \* the topic locks that are held
    items,           \* per queue: everything ever put into it, in put order
    taken,           \* per queue: how many of its items have been got
    qslug,           \* per queue: the slug connect() created it for
    tk,              \* per task: program counter, continuation and locals
    streams,         \* per queue the endpoint created: its request, its state, and
                     \* history: after (where the presented id stood among the
                     \* published events when the replay was cut), mark (how many
                     \* events were published when it last sent a message), fresh
                     \* (the slug had no connection set when it connected), tags
                     \* (the yield point each of its messages came from), windows
                     \* (how many of its waits on the queue have timed out),
                     \* waited (how long its wait on the queue has lasted),
                     \* idle (how long ago it sent its last message)
    emitted,         \* per queue: the messages its stream sent to the client
    beats,           \* waits on a queue that have timed out so far
    nev,             \* per task: events it has constructed (uuid4 draws)
    published,       \* history variable: per slug, every event recorded, in order,
                     \*   each with the slug's queues at that moment, the
                     \*   queues whose put raised, and the queues it was put
                     \*   into when they were no longer registered
    removals,        \* history variable: per slug, disconnects that removed a queue
    noops,           \* history variable: the (slug, queue) of disconnects that found nothing
    ncalls           \* top-level calls started so far

vars == <<connections, event_history, locks, global_lock, locked,
          items, taken, qslug, tk, streams, emitted, beats, nev,
          published, removals, noops, ncalls>>

\* ------------------------------------------------------------ dict helpers
Get(d, k, default) == IF k \in DOMAIN d THEN d[k] ELSE default
Put(d, k, v) == [x \in DOMAIN d \cup {k} |-> IF x = k THEN v ELSE d[x]]
Del(d, k) == [x \in DOMAIN d \ {k} |-> d[x]]
EmptyDict == [x \in {} |-> {}]

\* ----------------------------------------------------------------- events
SSEEvent(id, type, data) == [id |-> id, event |-> type, data |-> data]
NoEvent == SSEEvent(None, "", 0)

\* uuid4(): the n-th identifier task t draws; distinct draws are distinct
uuid4(t, n) == <<t, n>>

\* ------------------------------------------------------------------ tasks
Idle == [pc |-> "idle", stack |-> <<>>, op |-> "", slug |-> "", queue |-> 0,
         lock |-> None, count |-> 0, event |-> NoEvent, conns |-> {},
         last_event_id |-> None, missed |-> <<>>]

\* r at its next scheduling point: the head of its continuation, or idle
\* once the top-level call has returned
Resume(r) ==
    IF r.stack = <<>> THEN Idle
    ELSE [r EXCEPT !.pc = Head(r.stack), !.stack = Tail(r.stack)]

\* r entering the scheduling points k (in order) before what it had to do
Enter(r, k) == Resume([r EXCEPT !.stack = k \o r.stack])

Queues == 1 .. Len(items)

\* the unread part of queue q
Mailbox(q) == SubSeq(items[q], taken[q] + 1, Len(items[q]))

Init ==
    /\ connections = EmptyDict
    /\ event_history = EmptyDict
    /\ locks = EmptyDict
    /\ global_lock = FALSE
    /\ locked = {}
    /\ items = <<>>
    /\ taken = <<>>
    /\ qslug = <<>>
    /\ tk = [t \in Tasks |-> Idle]
    /\ streams = EmptyDict
    /\ emitted = <<>>
    /\ beats = 0
    /\ nev = [t \in Tasks |-> 0]
    /\ published = [s \in Topics |-> <<>>]
    /\ removals = [s \in Topics |-> 0]
    /\ noops = {}
    /\ ncalls = 0

\* ------------------------------------------------- the code's data steps
\* mutant: every request installs a lock of its own
InstallLockAnew(lk, s, t) == Put(lk, s, <<s, t>>)

\* _get_lock, lines 62-64: the slug's lock, installed by task t when absent
InstallLock(lk, s, t) == IF s \in DOMAIN lk THEN lk ELSE Put(lk, s, <<s, t>>)

\* connect, lines 77-79: a slug with no connection set gets an empty set ...
EnsureConnections(conns, s) == IF s \in DOMAIN conns THEN conns ELSE Put(conns, s, {})

\* mutant: the new history starts with a connection_count event
ResetHistoryRecordsCount(conns, hist, s) ==
    IF s \in DOMAIN conns THEN hist
    ELSE Put(hist, s, <<SSEEvent(uuid4("t3", 0), "connection_count", 1)>>)

\* ... and, in the same branch, an empty history
ResetHistory(conns, hist, s) == IF s \in DOMAIN conns THEN hist ELSE Put(hist, s, <<>>)

\* mutant: the new queue joins the set of every slug
RegisterEverywhere(conns, s, q) == [k \in DOMAIN conns |-> conns[k] \cup {q}]

\* connect, lines 81-82: the new queue joins the slug's set
Register(conns, s, q) == Put(conns, s, conns[s] \cup {q})

\* mutant: the slug's set is deleted whatever is left in it
DiscardDropsSet(conns, s, q) ==
    IF s \notin DOMAIN conns THEN conns ELSE Del(conns, s)

\* mutant: the slug's set is deleted while one queue is left in it
DiscardOffByOne(conns, s, q) ==
    IF s \notin DOMAIN conns THEN conns
    ELSE IF Cardinality(conns[s] \ {q}) <= 1 THEN Del(conns, s)
    ELSE Put(conns, s, conns[s] \ {q})

\* mutant: the slug's set is kept when its last queue has gone
DiscardKeepsEmptySet(conns, s, q) ==
    IF s \notin DOMAIN conns THEN conns ELSE Put(conns, s, conns[s] \ {q})

\* disconnect, lines 98-102: discard the queue; delete the set once empty
Discard(conns, s, q) ==
    IF s \notin DOMAIN conns THEN conns
    ELSE IF conns[s] \ {q} = {} THEN Del(conns, s)
    ELSE Put(conns, s, conns[s] \ {q})

\* mutant: the queues of every slug are counted
ConnectionCountOfAll(conns, s) == Cardinality(UNION {conns[x] : x \in DOMAIN conns})

\* mutant: the slugs that have a connection set are counted
ConnectionCountOfSlugs(conns, s) == Cardinality(DOMAIN conns)

\* get_connection_count, line 119
ConnectionCount(conns, s) == Cardinality(Get(conns, s, {}))

\* mutant: at the limit the new event is dropped and the oldest is kept
RecordKeepsOldest(hist, s, e) ==
    LET h == Append(Get(hist, s, <<>>), e)
    IN  Put(hist, s, IF Len(h) > history_limit THEN SubSeq(h, 1, history_limit) ELSE h)

\* mutant: nothing is recorded for a slug that has no history yet
RecordSkipsUnseen(hist, s, e) ==
    IF s \notin DOMAIN hist THEN hist
    ELSE LET h == Append(hist[s], e)
         IN  Put(hist, s, IF Len(h) > history_limit
                          THEN SubSeq(h, Len(h) - history_limit + 1, Len(h))
                          ELSE h)

\* broadcast, lines 131-136: append, then keep the last history_limit events
Record(hist, s, e) ==
    LET h == Append(Get(hist, s, <<>>), e)
    IN  Put(hist, s, IF Len(h) > history_limit
                     THEN SubSeq(h, Len(h) - history_limit + 1, Len(h))
                     ELSE h)

\* mutant: the queues of every slug
SnapshotAll(conns, s) == UNION {conns[x] : x \in DOMAIN conns}

\* mutant: the copy is the set as it was before its newest queue joined
SnapshotBeforeNewest(conns, s) ==
    LET c == Get(conns, s, {})
    IN  c \ {q \in c : \A o \in c : o <= q}

\* mutant: the snapshot holds every queue created for the slug, removed or not
SnapshotEverCreated(conns, s) == {q \in Queues : qslug[q] = s}

\* broadcast, line 139, and _broadcast_connection_count, line 163: the copy
Snapshot(conns, s) == Get(conns, s, {})

\* mutant: the slice is what stands before the event found
MissedEventsBefore(history, last_event_id) ==
    LET found == {i \in 1 .. Len(history) : history[i].id = last_event_id}
    IN  IF last_event_id = None \/ found = {} THEN <<>>
        ELSE LET found_index == CHOOSE i \in found : \A j \in found : i <= j
             IN  SubSeq(history, 1, found_index - 1)

\* mutant: an id that is not found gets the whole history
MissedEventsAllWhenUnknown(history, last_event_id) ==
    LET found == {i \in 1 .. Len(history) : history[i].id = last_event_id}
    IN  IF last_event_id = None THEN <<>>
        ELSE IF found = {} THEN history
        ELSE LET found_index == CHOOSE i \in found : \A j \in found : i <= j
             IN  SubSeq(history, found_index + 1, Len(history))

\* mutant: the slice skips the event after the one found
MissedEventsSkipsOne(history, last_event_id) ==
    LET found == {i \in 1 .. Len(history) : history[i].id = last_event_id}
    IN  IF last_event_id = None \/ found = {} THEN <<>>
        ELSE LET found_index == CHOOSE i \in found : \A j \in found : i <= j
             IN  SubSeq(history, found_index + 2, Len(history))

\* mutant: the slice starts at the event found, not after it
MissedEventsFromFound(history, last_event_id) ==
    LET found == {i \in 1 .. Len(history) : history[i].id = last_event_id}
    IN  IF last_event_id = None \/ found = {} THEN <<>>
        ELSE LET found_index == CHOOSE i \in found : \A j \in found : i <= j
             IN  SubSeq(history, found_index, Len(history))

\* get_missed_events, lines 183-202: nothing for no id or an id not in the
\* history, else what follows the first event with that id
MissedEvents(history, last_event_id) ==
    LET found == {i \in 1 .. Len(history) : history[i].id = last_event_id}
    IN  IF last_event_id = None \/ found = {} THEN <<>>
        ELSE LET found_index == CHOOSE i \in found : \A j \in found : i <= j
             IN  SubSeq(history, found_index + 1, Len(history))

\* mutant: the put leaves the queue as it was
QueuePutDrops(its, q, e) == its

\* queue.put(event), lines 143 and 167
QueuePut(its, q, e) == [its EXCEPT ![q] = Append(@, e)]

\* ------------------------------------------------------ scheduling steps
Unchanged_registry == UNCHANGED <<connections, event_history, published, removals, noops>>
Unchanged_queues == UNCHANGED <<items, taken, qslug>>
Unchanged_streams == UNCHANGED <<streams, emitted, beats>>

\* mutant: the lock stays held after the block
ReleaseNot(held, l) == held

\* the end of an async with lock block: the lock is released
Release(held, l) == held \ {l}

\* async with self._global_lock (line 61): wait for it, take it
GetLockAcquire(t) ==
    /\ tk[t].pc = "gl_acquire"
    /\ ~global_lock
    /\ global_lock' = TRUE
    /\ tk' = [tk EXCEPT ![t].pc = "gl_body"]
    /\ UNCHANGED <<locks, locked, nev, ncalls>>
    /\ Unchanged_registry /\ Unchanged_queues /\ Unchanged_streams

\* mutant: _get_lock returns the lock without leaving the registry-wide one
GetLockBodyKeepsLock(t) ==
    /\ tk[t].pc = "gl_body"
    /\ locks' = InstallLock(locks, tk[t].slug, t)
    /\ global_lock' = TRUE
    /\ tk' = [tk EXCEPT ![t] = Resume([@ EXCEPT !.lock = locks'[tk[t].slug]])]
    /\ UNCHANGED <<locked, nev, ncalls>>
    /\ Unchanged_registry /\ Unchanged_queues /\ Unchanged_streams

\* _get_lock's body (lines 62-64), the release, and the return of the lock
GetLockBody(t) ==
    /\ tk[t].pc = "gl_body"
    /\ locks' = InstallLock(locks, tk[t].slug, t)
    /\ global_lock' = FALSE
    /\ tk' = [tk EXCEPT ![t] = Resume([@ EXCEPT !.lock = locks'[tk[t].slug]])]
    /\ UNCHANGED <<locked, nev, ncalls>>
    /\ Unchanged_registry /\ Unchanged_queues /\ Unchanged_streams

\* async with lock: wait for the topic lock the task was handed, take it
AcquireTopicLock(t, at, body) ==
    /\ tk[t].pc = at
    /\ tk[t].lock \notin locked
    /\ locked' = locked \cup {tk[t].lock}
    /\ tk' = [tk EXCEPT ![t].pc = body]
    /\ UNCHANGED <<locks, global_lock, nev, ncalls>>
    /\ Unchanged_registry /\ Unchanged_queues /\ Unchanged_streams

\* what _broadcast_connection_count still has to do when it is called
BroadcastCountSteps == <<"gl_acquire", "gcc_acquire", "gl_acquire", "bcc_acquire">>

\* ---- connect (lines 66-87)
ConnectAcquire(t) == AcquireTopicLock(t, "connect_acquire", "connect_body")

ConnectBody(t) ==
    /\ tk[t].pc = "connect_body"
    /\ LET s == tk[t].slug
           q == Len(items) + 1
       IN  /\ event_history' = ResetHistory(connections, event_history, s)
           /\ connections' = Register(EnsureConnections(connections, s), s, q)
           /\ items' = Append(items, <<>>)
           /\ taken' = Append(taken, 0)
           /\ emitted' = Append(emitted, <<>>)
           /\ qslug' = Append(qslug, s)
           /\ tk' = [tk EXCEPT ![t] = Enter([@ EXCEPT !.queue = q], BroadcastCountSteps)]
    /\ locked' = Release(locked, tk[t].lock)
    /\ streams' = IF tk[t].op = "endpoint"
                   THEN Put(streams, Len(items) + 1,
                            [last_event_id |-> tk[t].last_event_id,
                             state |-> "CONNECTING", after |-> 0, mark |-> 0,
                             tags |-> <<>>, windows |-> 0,
                             waited |-> 0, idle |-> 0,
                             fresh |-> tk[t].slug \notin DOMAIN connections])
                   ELSE streams
    /\ UNCHANGED <<locks, global_lock, nev, published, removals, noops, ncalls, beats>>

\* ---- disconnect (lines 89-106)
DisconnectAcquire(t) == AcquireTopicLock(t, "disconnect_acquire", "disconnect_body")

DisconnectBody(t) ==
    /\ tk[t].pc = "disconnect_body"
    /\ LET s == tk[t].slug
           q == tk[t].queue
       IN  /\ connections' = Discard(connections, s, q)
           /\ removals' = IF q \in Get(connections, s, {})
                          THEN [removals EXCEPT ![s] = @ + 1] ELSE removals
           /\ noops' = IF q \in Get(connections, s, {})
                       THEN noops ELSE noops \cup {<<s, q>>}
    /\ tk' = [tk EXCEPT ![t] = Enter(@, BroadcastCountSteps)]
    /\ locked' = Release(locked, tk[t].lock)
    /\ UNCHANGED <<locks, global_lock, nev, event_history, published, ncalls>>
    /\ Unchanged_queues /\ Unchanged_streams

\* ---- get_connection_count (lines 108-119)
CountAcquire(t) == AcquireTopicLock(t, "gcc_acquire", "gcc_body")

CountBody(t) ==
    /\ tk[t].pc = "gcc_body"
    /\ tk' = [tk EXCEPT ![t] =
                Resume([@ EXCEPT !.count = ConnectionCount(connections, tk[t].slug)])]
    /\ locked' = Release(locked, tk[t].lock)
    /\ UNCHANGED <<locks, global_lock, nev, ncalls>>
    /\ Unchanged_registry /\ Unchanged_queues /\ Unchanged_streams

\* where the event with e's id stands among the events published to slug s
Pos(s, e) == CHOOSE i \in 1 .. Len(published[s]) : published[s][i].e.id = e.id

\* mutant: the queues hold one unread event
FullAtOne(q) == Len(Mailbox(q)) >= 1

\* queue.full(), on which a put waits: connect creates the queue with
\* asyncio.Queue() (line 81), which has no maximum size
Full(q) == FALSE

\* the delivery loops (lines 141-146, 165-169): one put per step, in the
\* set's iteration order, which is any order; the call returns after the last
DeliverOne(t, at) ==
    /\ tk[t].pc = at
    /\ \E q \in tk[t].conns :
         /\ ~Full(q)
         /\ items' = QueuePut(items, q, tk[t].event)
         /\ tk' = [tk EXCEPT ![t] =
                     IF tk[t].conns = {q} THEN Resume(@)
                     ELSE [@ EXCEPT !.conns = tk[t].conns \ {q}]]
         /\ published' =
               IF at = "broadcast_put" /\ q \notin Get(connections, tk[t].slug, {})
               THEN [published EXCEPT
                       ![tk[t].slug][Pos(tk[t].slug, tk[t].event)].late = @ \cup {q}]
               ELSE published
    /\ UNCHANGED <<locks, global_lock, locked, taken, qslug, nev, ncalls>>
    /\ UNCHANGED <<connections, event_history, removals, noops>>
    /\ Unchanged_streams

\* mutant: the loop ends after its first queue
StartDeliveryFirstOnly(r, e, c, at) ==
    IF c = {} THEN Resume(r)
    ELSE [r EXCEPT !.event = e, !.conns = {CHOOSE q \in c : TRUE}, !.pc = at]

\* r after its critical section took the snapshot c for event e
StartDelivery(r, e, c, at) ==
    IF c = {} THEN Resume(r)
    ELSE [r EXCEPT !.event = e, !.conns = c, !.pc = at]

\* ---- _broadcast_connection_count (lines 148-169); the event of lines
\* 155-158 is built from the count read at line 154
BroadcastCountAcquire(t) == AcquireTopicLock(t, "bcc_acquire", "bcc_body")

BroadcastCountBody(t) ==
    /\ tk[t].pc = "bcc_body"
    /\ LET e == SSEEvent(uuid4(t, nev[t] + 1), "connection_count", tk[t].count)
       IN  tk' = [tk EXCEPT ![t] =
                    StartDelivery(@, e, Snapshot(connections, tk[t].slug), "bcc_put")]
    /\ nev' = [nev EXCEPT ![t] = @ + 1]
    /\ locked' = Release(locked, tk[t].lock)
    /\ UNCHANGED <<locks, global_lock, ncalls>>
    /\ Unchanged_registry /\ Unchanged_queues /\ Unchanged_streams

BroadcastCountPut(t) == DeliverOne(t, "bcc_put")

\* ---- broadcast (lines 121-146)
BroadcastAcquire(t) == AcquireTopicLock(t, "broadcast_acquire", "broadcast_body")

BroadcastBody(t) ==
    /\ tk[t].pc = "broadcast_body"
    /\ LET s == tk[t].slug
       IN  /\ event_history' = Record(event_history, s, tk[t].event)
           /\ published' = [published EXCEPT ![s] =
                               Append(@, [e |-> tk[t].event, to |-> Get(connections, s, {}),
                                          failed |-> {}, late |-> {}])]
           /\ tk' = [tk EXCEPT ![t] =
                       StartDelivery(@, tk[t].event, Snapshot(connections, s),
                                     "broadcast_put")]
    /\ locked' = Release(locked, tk[t].lock)
    /\ UNCHANGED <<locks, global_lock, nev, connections, removals, noops, ncalls>>
    /\ Unchanged_queues /\ Unchanged_streams

BroadcastPut(t) == DeliverOne(t, "broadcast_put")

\* mutant: the exception of the put leaves the loop and the call
PutRaisesAborts(t) ==
    /\ tk[t].pc = "broadcast_put"
    /\ \E q \in tk[t].conns :
         /\ published' = [published EXCEPT
                            ![tk[t].slug][Pos(tk[t].slug, tk[t].event)].failed = @ \cup {q}]
         /\ tk' = [tk EXCEPT ![t] = Resume(@)]
    /\ UNCHANGED <<locks, global_lock, locked, nev, ncalls>>
    /\ UNCHANGED <<connections, event_history, removals, noops>>
    /\ Unchanged_queues /\ Unchanged_streams

\* await queue.put(event) raises for one queue of the snapshot: the except
\* clause passes and the loop goes on with the next queue (lines 142-146)
PutRaises(t) ==
    /\ tk[t].pc = "broadcast_put"
    /\ \E q \in tk[t].conns :
         /\ published' = [published EXCEPT
                            ![tk[t].slug][Pos(tk[t].slug, tk[t].event)].failed = @ \cup {q}]
         /\ tk' = [tk EXCEPT ![t] =
                     IF tk[t].conns = {q} THEN Resume(@)
                     ELSE [@ EXCEPT !.conns = tk[t].conns \ {q}]]
    /\ UNCHANGED <<locks, global_lock, locked, nev, ncalls>>
    /\ UNCHANGED <<connections, event_history, removals, noops>>
    /\ Unchanged_queues /\ Unchanged_streams

\* ------------------------------------------------------- top-level calls
\* task t, idle, starts a call: r is the task as the call begins, k the
\* scheduling points the call goes through
Call(t, r, k, max) ==
    /\ tk[t].pc = "idle"
    /\ ncalls < max
    /\ ncalls' = ncalls + 1
    /\ tk' = [tk EXCEPT ![t] = Enter(r, k)]
    /\ UNCHANGED <<locks, global_lock, locked>>
    /\ Unchanged_registry /\ Unchanged_queues /\ Unchanged_streams

\* slugs and callers are interchangeable: the first call of a run of Spec is
\* made by t1 on slug A
FirstCall(t, s) == ncalls = 0 => (t = "t1" /\ s = "A")

\* await manager.connect(slug)
CallConnect(t) ==
    \E s \in Topics :
        /\ FirstCall(t, s)
        /\ Call(t, [Idle EXCEPT !.op = "connect", !.slug = s],
                <<"gl_acquire", "connect_acquire">>, MaxCalls)
        /\ UNCHANGED nev

\* await manager.disconnect(slug, queue), of any queue handed out so far or
\* of a queue (0) the manager never saw
CallDisconnect(t) ==
    \E s \in Topics, q \in 0 .. Len(items) :
        /\ FirstCall(t, s)
        /\ Call(t, [Idle EXCEPT !.op = "disconnect", !.slug = s, !.queue = q],
                <<"gl_acquire", "disconnect_acquire">>, MaxCalls)
        /\ UNCHANGED nev

\* a producer builds an event and awaits manager.broadcast(slug, event)
Publish(t, s, ty, max) ==
    /\ Call(t, [Idle EXCEPT !.op = "broadcast", !.slug = s,
                            !.event = SSEEvent(uuid4(t, nev[t] + 1), ty, Payload)],
            <<"gl_acquire", "broadcast_acquire">>, max)
    /\ nev' = [nev EXCEPT ![t] = @ + 1]

CallBroadcast(t) ==
    \E s \in Topics, ty \in DomainTypes : FirstCall(t, s) /\ Publish(t, s, ty, MaxCalls)

GetLockStep(t) == GetLockAcquire(t) \/ GetLockBody(t)
ConnectStep(t) == ConnectAcquire(t) \/ ConnectBody(t)
DisconnectStep(t) == DisconnectAcquire(t) \/ DisconnectBody(t)
CountStep(t) ==
    \/ CountAcquire(t) \/ CountBody(t)
    \/ BroadcastCountAcquire(t) \/ BroadcastCountBody(t) \/ BroadcastCountPut(t)
BroadcastStep(t) == BroadcastAcquire(t) \/ BroadcastBody(t) \/ BroadcastPut(t)

Step(t) ==
    \/ GetLockStep(t) \/ ConnectStep(t) \/ DisconnectStep(t)
    \/ CountStep(t) \/ BroadcastStep(t)

Next ==
    \E t \in Callers :
        \/ CallConnect(t) \/ CallDisconnect(t) \/ CallBroadcast(t)
        \/ Step(t)

Spec == Init /\ [][Next]_vars

\* one task calls the manager, one call after the other
NextSolo ==
    \/ CallConnect("t1") \/ CallDisconnect("t1") \/ CallBroadcast("t1")
    \/ Step("t1")

SpecSolo == Init /\ [][NextSolo]_vars

\* one task calls the manager, and a put of its broadcast may raise
NextFault == NextSolo \/ PutRaises("t1")

SpecFault == Init /\ [][NextFault]_vars

\* ============================================== the streaming endpoint
\* SSEEvent.format (lines 37-40) over to_dict (lines 28-35): the id line, the
\* event line and the data line with the JSON payload
Format(e) ==
    [id |-> e.id, event |-> e.event,
     data |-> [event_id |-> e.id, event |-> e.event, data |-> e.data]]

StreamTopics == {"A"}

\* the identifiers a client presents as Last-Event-ID: that of an event
\* published to the slug, or that of the last message a stream has sent
KnownIds ==
    {published["A"][i].e.id : i \in 1 .. Len(published["A"])}
    \cup {emitted[q][Len(emitted[q])].id : q \in {x \in Queues : emitted[x] # <<>>}}

SetState(q, st) == [streams EXCEPT ![q].state = st]

\* mutant: the fault of one stream ends every stream
ClosedTogether(q) ==
    [o \in DOMAIN streams |->
        [streams[o] EXCEPT !.state = "CLOSED", !.waited = 0, !.idle = 0]]

\* the stream is over: its wait, if any, is cancelled with it
Closed(q) == [SetState(q, "CLOSED") EXCEPT ![q].waited = 0, ![q].idle = 0]

\* mutant: the generator goes from its replay straight to its live loop
ToLiveLoop(r) == [r EXCEPT !.missed = <<>>, !.pc = "live_wait"]

\* the generator after its replay: await self.get_connection_count (line 231)
ToSnapshot(r) ==
    Enter([r EXCEPT !.missed = <<>>], <<"gl_acquire", "gcc_acquire", "gen_snapshot">>)

\* the finally of the endpoint's generator (events.py lines 73-75)
Teardown(r) ==
    Enter([r EXCEPT !.stack = <<>>, !.missed = <<>>, !.event = NoEvent],
          <<"gl_acquire", "disconnect_acquire">>)

\* GET /events (events.py lines 38-62): queue = await connect(slug)
CallEndpoint(t) ==
    \E s \in StreamTopics, last \in KnownIds \cup {None} :
        /\ Call(t, [Idle EXCEPT !.op = "endpoint", !.slug = s, !.last_event_id = last],
                <<"gl_acquire", "connect_acquire", "ep_created">>, MaxStreamCalls)
        /\ UNCHANGED nev

\* the response is given up before its body is iterated: the generator of
\* events.py lines 64-75 never starts, so its try/finally is never entered
Abandon(t) ==
    /\ tk[t].pc = "ep_created"
    /\ tk' = [tk EXCEPT ![t] = Idle]
    /\ streams' = SetState(tk[t].queue, "ABANDONED")
    /\ UNCHANGED <<locks, global_lock, locked, nev, ncalls, emitted, beats>>
    /\ Unchanged_registry /\ Unchanged_queues

\* the response iterates its body: the generators start, and line 226 awaits
\* get_missed_events, which returns at once for no id (lines 183-184)
StartStream(t) ==
    /\ tk[t].pc = "ep_created"
    /\ IF tk[t].last_event_id = None
       THEN /\ tk' = [tk EXCEPT ![t] = ToSnapshot(@)]
            /\ streams' = SetState(tk[t].queue, "SNAPSHOT")
       ELSE /\ tk' = [tk EXCEPT ![t] = Enter(@, <<"gl_acquire", "gme_acquire">>)]
            /\ streams' = SetState(tk[t].queue, "REPLAYING")
    /\ UNCHANGED <<locks, global_lock, locked, nev, ncalls, emitted, beats>>
    /\ Unchanged_registry /\ Unchanged_queues

\* ---- get_missed_events (lines 171-202)
MissedAcquire(t) == AcquireTopicLock(t, "gme_acquire", "gme_body")

MissedBody(t) ==
    /\ tk[t].pc = "gme_body"
    /\ LET s == tk[t].slug
           q == tk[t].queue
           h == Get(event_history, s, <<>>)
           m == MissedEvents(h, tk[t].last_event_id)
           at == {i \in 1 .. Len(published[s]) :
                    /\ published[s][i].e.id = tk[t].last_event_id
                    /\ \E k \in 1 .. Len(h) : h[k].id = tk[t].last_event_id}
       IN  IF tk[t].op = "missed"
           THEN /\ tk' = [tk EXCEPT ![t] = Resume(@)]
                /\ UNCHANGED streams
           ELSE /\ tk' = [tk EXCEPT ![t] =
                            IF m = <<>> THEN ToSnapshot(@)
                            ELSE [@ EXCEPT !.missed = m, !.pc = "gen_replay"]]
                /\ streams' = [streams EXCEPT
                                 ![q].state = IF m = <<>> THEN "SNAPSHOT" ELSE "REPLAYING",
                                 ![q].after = IF at = {} THEN 0 ELSE CHOOSE i \in at : TRUE]
    /\ locked' = Release(locked, tk[t].lock)
    /\ UNCHANGED <<locks, global_lock, nev, ncalls, emitted, beats>>
    /\ Unchanged_registry /\ Unchanged_queues

YieldPoints == {"gen_replay", "gen_snapshot", "gen_event", "gen_heartbeat"}

\* the event the generator yields at its yield point (lines 228, 236, 245, 254)
Yielded(t) ==
    CASE tk[t].pc = "gen_replay" -> Head(tk[t].missed)
      [] tk[t].pc = "gen_snapshot" ->
            SSEEvent(uuid4(t, nev[t] + 1), "connection_count", tk[t].count)
      [] tk[t].pc = "gen_event" -> tk[t].event
      [] tk[t].pc = "gen_heartbeat" -> SSEEvent(uuid4(t, nev[t] + 1), "heartbeat", 0)

\* mutant: one timer runs on, whatever the generator sends
StartWaitKeepsTimer(st, q) == st

\* the loop enters wait_for(queue.get(), timeout=HEARTBEAT_INTERVAL) again
\* (lines 242-246): the timeout is counted from here
StartWait(st, q) == [st EXCEPT ![q].waited = 0]

\* a yield of event_generator reaches the client: request.is_disconnected()
\* is false (events.py line 70) and the text is sent (line 72)
Yield(t) ==
    /\ tk[t].pc \in YieldPoints
    /\ LET q == tk[t].queue
           wrote == [streams EXCEPT ![q].mark = Len(published[tk[t].slug]),
                                    ![q].tags = Append(@, tk[t].pc)]
           sent == [wrote EXCEPT ![q].idle = 0]
       IN  /\ emitted' = [emitted EXCEPT ![q] = Append(@, Format(Yielded(t)))]
           /\ IF tk[t].pc = "gen_replay" /\ Len(tk[t].missed) > 1
              THEN /\ tk' = [tk EXCEPT ![t].missed = Tail(@)]
                   /\ streams' = sent
              ELSE IF tk[t].pc = "gen_replay"
              THEN /\ tk' = [tk EXCEPT ![t] = ToSnapshot(@)]
                   /\ streams' = [sent EXCEPT ![q].state = "SNAPSHOT"]
              ELSE /\ tk' = [tk EXCEPT ![t].pc = "live_wait", ![t].event = NoEvent]
                   /\ streams' = StartWait([sent EXCEPT ![q].state = "LIVE"], q)
    /\ nev' = IF tk[t].pc \in {"gen_snapshot", "gen_heartbeat"}
              THEN [nev EXCEPT ![t] = @ + 1] ELSE nev
    /\ UNCHANGED <<locks, global_lock, locked, ncalls, beats>>
    /\ Unchanged_registry /\ Unchanged_queues

\* request.is_disconnected() is true at a yield: break, then the finally
ClientGone(t) ==
    /\ tk[t].pc \in YieldPoints
    /\ tk' = [tk EXCEPT ![t] = Teardown(@)]
    /\ streams' = Closed(tk[t].queue)
    /\ UNCHANGED <<locks, global_lock, locked, nev, ncalls, emitted, beats>>
    /\ Unchanged_registry /\ Unchanged_queues

\* the task is cancelled, or the loop faults, while the generator waits for
\* its queue: the except clauses break (lines 256-259), then the finally
Cancel(t) ==
    /\ tk[t].pc = "live_wait"
    /\ tk' = [tk EXCEPT ![t] = Teardown(@)]
    /\ streams' = Closed(tk[t].queue)
    /\ UNCHANGED <<locks, global_lock, locked, nev, ncalls, emitted, beats>>
    /\ Unchanged_registry /\ Unchanged_queues

\* mutant: the event is read and stays in the queue
QueueGetPeeks(t) ==
    /\ tk[t].pc = "live_wait"
    /\ Mailbox(tk[t].queue) # <<>>
    /\ tk' = [tk EXCEPT ![t].event = Head(Mailbox(tk[t].queue)), ![t].pc = "gen_event"]
    /\ taken' = taken
    /\ UNCHANGED <<locks, global_lock, locked, nev, ncalls, items, qslug>>
    /\ Unchanged_registry /\ Unchanged_streams

\* wait_for(queue.get(), ...) returns the queue's next event (line 244)
QueueGet(t) ==
    /\ tk[t].pc = "live_wait"
    /\ Mailbox(tk[t].queue) # <<>>
    /\ tk' = [tk EXCEPT ![t].event = Head(Mailbox(tk[t].queue)), ![t].pc = "gen_event"]
    /\ taken' = [taken EXCEPT ![tk[t].queue] = @ + 1]
    /\ UNCHANGED <<locks, global_lock, locked, nev, ncalls, items, qslug>>
    /\ Unchanged_registry /\ Unchanged_streams

\* time.time() - last_heartbeat as line 249 can read it when the wait has
\* timed out: the wait is timed on the event loop's clock, last_heartbeat and
\* line 249 read the wall clock, which can have been set back in between
Readings == {HEARTBEAT_INTERVAL - 1, HEARTBEAT_INTERVAL}

\* the time a wait, or a silence, has lasted after d more units: the model
\* does not tell apart the times from HEARTBEAT_INTERVAL on
Later(x, d) == IF x + d >= HEARTBEAT_INTERVAL THEN HEARTBEAT_INTERVAL ELSE x + d

\* the streams whose generator is inside wait_for(queue.get(), ...) (line 243)
Waiting == {q \in DOMAIN streams :
              \E t \in Tasks : tk[t].queue = q /\ tk[t].pc = "live_wait"}

\* d units of time pass, for every stream at once, while some wait can still
\* run out: each wait in progress has lasted d units more, and so has the
\* silence of each stream since its last message
Tick(d) ==
    /\ beats < MaxBeats
    /\ \E q \in Waiting : streams[q].waited < HEARTBEAT_INTERVAL
    /\ streams' = [q \in DOMAIN streams |->
                     IF streams[q].state # "LIVE" THEN streams[q]
                     ELSE [streams[q] EXCEPT
                             !.idle = Later(@, d),
                             !.waited = IF q \in Waiting THEN Later(@, d) ELSE @]]
    /\ UNCHANGED <<locks, global_lock, locked, nev, ncalls, tk, emitted, beats>>
    /\ Unchanged_registry /\ Unchanged_queues

\* wait_for times out on an empty queue after its timeout of
\* HEARTBEAT_INTERVAL (lines 243-247); the heartbeat is built and yielded
\* when line 249 finds the interval elapsed, else the loop waits again
Timeout(t) ==
    /\ tk[t].pc = "live_wait"
    /\ Mailbox(tk[t].queue) = <<>>
    /\ streams[tk[t].queue].waited >= HEARTBEAT_INTERVAL
    /\ beats < MaxBeats
    /\ beats' = beats + 1
    /\ \E elapsed \in Readings :
          tk' = [tk EXCEPT ![t].pc = IF elapsed >= HEARTBEAT_INTERVAL
                                     THEN "gen_heartbeat" ELSE "live_wait"]
    /\ streams' = StartWait([streams EXCEPT ![tk[t].queue].windows = @ + 1],
                            tk[t].queue)
    /\ UNCHANGED <<locks, global_lock, locked, nev, ncalls, emitted>>
    /\ Unchanged_registry /\ Unchanged_queues

\* producers are interchangeable: the second one calls only while the first
\* is inside a call of its own
Second(t) == t # "t1" => tk["t1"].pc # "idle"

\* a producer publishes to the stream's slug
StreamBroadcast(t) ==
    \E s \in StreamTopics, ty \in DomainTypes :
        Second(t) /\ Publish(t, s, ty, MaxStreamCalls)

\* the earlier viewer, connected through connect() alone, leaves
StreamDisconnect(t) ==
    /\ Second(t)
    /\ Call(t, [Idle EXCEPT !.op = "disconnect", !.slug = "A", !.queue = 1],
            <<"gl_acquire", "disconnect_acquire">>, MaxStreamCalls)
    /\ UNCHANGED nev

\* the manager after connect("A") and broadcast("A", e) by t1, a state of Spec
StreamStart ==
    LET cc == SSEEvent(uuid4("t1", 1), "connection_count", 1)
        e0 == SSEEvent(uuid4("t1", 2), "item_added", Payload)
    IN  /\ connections = [s \in {"A"} |-> {1}]
        /\ event_history = [s \in {"A"} |-> <<e0>>]
        /\ locks = [s \in {"A"} |-> <<"A", "t1">>]
        /\ global_lock = FALSE
        /\ locked = {}
        /\ items = << <<cc, e0>> >>
        /\ taken = <<0>>
        /\ qslug = <<"A">>
        /\ tk = [t \in Tasks |-> Idle]
        /\ streams = EmptyDict
        /\ emitted = << <<>> >>
        /\ beats = 0
        /\ nev = [t \in Tasks |-> IF t = "t1" THEN 2 ELSE 0]
        /\ published = [s \in Topics |->
                          IF s = "A" THEN <<[e |-> e0, to |-> {1}, failed |-> {},
                                           late |-> {}]>>
                          ELSE <<>>]
        /\ removals = [s \in Topics |-> 0]
        /\ noops = {}

InitStream == StreamStart /\ ncalls = 0

StreamStep(t) ==
    \/ Abandon(t) \/ StartStream(t)
    \/ MissedAcquire(t) \/ MissedBody(t)
    \/ Yield(t) \/ ClientGone(t) \/ Cancel(t)
    \/ QueueGet(t) \/ Timeout(t)

\* one producer, which may also make the earlier viewer leave, and one client
NextStream ==
    \/ StreamBroadcast("t1") \/ StreamDisconnect("t1")
    \/ \E t \in Clients : CallEndpoint(t) \/ StreamStep(t)
    \/ Tick(HEARTBEAT_INTERVAL)
    \/ \E t \in Tasks : Step(t)

SpecStream == InitStream /\ [][NextStream]_vars

\* two producers and one client whose stream is never closed
NextRace ==
    \/ \E t \in Producers : StreamBroadcast(t)
    \/ \E t \in Clients :
          \/ CallEndpoint(t) \/ StartStream(t)
          \/ MissedAcquire(t) \/ MissedBody(t)
          \/ Yield(t) \/ QueueGet(t)
    \/ \E t \in Tasks :
          GetLockStep(t) \/ ConnectStep(t) \/ CountStep(t) \/ BroadcastStep(t)

SpecRace == InitStream /\ [][NextRace]_vars

\* the event loop runs every task that can go on inside the manager; nothing
\* is asked of the clients, which may never read their streams
InManager(t) == Step(t) \/ MissedAcquire(t) \/ MissedBody(t)

SpecProgress == SpecRace /\ \A t \in Tasks : WF_vars(InManager(t))

\* two producers and one client whose stream is never closed and keeps
\* being read, with its waits timing out: the event loop runs every task that
\* is ready, inside the manager and inside the generator
InGenerator(t) == StartStream(t) \/ Yield(t) \/ QueueGet(t)

NextLoop ==
    \/ NextRace
    \/ Tick(HEARTBEAT_INTERVAL)
    \/ \E t \in Clients : Timeout(t)

SpecLoop ==
    /\ InitStream /\ [][NextLoop]_vars
    /\ \A t \in Tasks : WF_vars(InManager(t))
    /\ \A t \in Clients : WF_vars(InGenerator(t))

\* the clients of two streams that are open at the same time
Streamers == {"t2", "t3"}

\* the grain of time where two streams wait side by side
TimeStep == 10

\* GET /events without a Last-Event-ID; the clients are interchangeable, t2
\* is the one that connects second, once the stream of t3 is in its live loop
BeatEndpoint(t) ==
    /\ t = "t2" => \E q \in DOMAIN streams : streams[q].state = "LIVE"
    /\ Call(t, [Idle EXCEPT !.op = "endpoint", !.slug = "A"],
            <<"gl_acquire", "connect_acquire", "ep_created">>, MaxStreamCalls)
    /\ UNCHANGED nev

\* one producer and two clients whose streams are never closed, with time
\* passing in steps of TimeStep
NextBeat ==
    \/ StreamBroadcast("t1")
    \/ \E t \in Streamers :
          \/ BeatEndpoint(t) \/ StartStream(t)
          \/ Yield(t) \/ QueueGet(t) \/ Timeout(t)
    \/ Tick(TimeStep)
    \/ \E t \in Tasks :
          GetLockStep(t) \/ ConnectStep(t) \/ CountStep(t) \/ BroadcastStep(t)

SpecBeat == InitStream /\ [][NextBeat]_vars

\* one producer and two clients; the stream that connected first may end by a
\* fault or a cancellation in its live loop, the other stays open
NextContain ==
    \/ StreamBroadcast("t1")
    \/ \E t \in Streamers :
          \/ BeatEndpoint(t) \/ StartStream(t)
          \/ Yield(t) \/ QueueGet(t)
    \/ Cancel("t3")
    \/ \E t \in Tasks : Step(t)

SpecContain == InitStream /\ [][NextContain]_vars

\* ------------------------------------------- the replay buffer at its limit
\* an identifier no uuid4 draw returns
UnknownId == uuid4("t3", 0)

\* the identifiers get_missed_events is called with on slug s: none, one
\* never recorded, that of any event published to slug A when s is A, and
\* that of the latest event of slug A when s is another slug
PresentedIds(s) ==
    {None, UnknownId}
    \cup {published["A"][i].e.id :
            i \in (IF s = "A" THEN 1 ELSE Len(published["A"])) .. Len(published["A"])}

\* await manager.get_missed_events(slug, last_event_id)
CallMissed(t) ==
    \E s \in Topics : \E last \in PresentedIds(s) :
        /\ tk[t].pc = "idle"
        /\ tk' = [tk EXCEPT ![t] =
                    [Idle EXCEPT !.op = "missed", !.slug = s, !.last_event_id = last,
                                 !.pc = "gme_enter"]]
        /\ UNCHANGED <<locks, global_lock, locked, nev, ncalls>>
        /\ Unchanged_registry /\ Unchanged_queues /\ Unchanged_streams

\* lines 183-186: no id returns the empty list at once, else await _get_lock
MissedEnter(t) ==
    /\ tk[t].pc = "gme_enter"
    /\ tk' = [tk EXCEPT ![t] =
                IF tk[t].last_event_id = None THEN Resume(@)
                ELSE Enter(@, <<"gl_acquire", "gme_acquire">>)]
    /\ UNCHANGED <<locks, global_lock, locked, nev, ncalls>>
    /\ Unchanged_registry /\ Unchanged_queues /\ Unchanged_streams

\* await manager.get_missed_events(slug, id) with an id, which takes the
\* slug's lock (lines 186-187)
CallSince(t) ==
    \E s \in Topics :
        /\ FirstCall(t, s)
        /\ Call(t, [Idle EXCEPT !.op = "missed", !.slug = s, !.last_event_id = UnknownId],
                <<"gl_acquire", "gme_acquire">>, MaxCalls)
        /\ UNCHANGED nev

\* n = await manager.get_connection_count(slug)
CallCount(t) ==
    \E s \in Topics :
        /\ FirstCall(t, s)
        /\ Call(t, [Idle EXCEPT !.op = "count", !.slug = s],
                <<"gl_acquire", "gcc_acquire", "count_done">>, MaxCalls)
        /\ UNCHANGED nev

\* the caller has the number get_connection_count returned (line 119)
CountReturn(t) ==
    /\ tk[t].pc = "count_done"
    /\ tk' = [tk EXCEPT ![t] = Idle]
    /\ UNCHANGED <<locks, global_lock, locked, nev, ncalls>>
    /\ Unchanged_registry /\ Unchanged_queues /\ Unchanged_streams

\* the callers of Spec, which may also ask for missed events and for the
\* connection count
NextLocks ==
    \/ Next
    \/ \E t \in Callers :
          \/ CallSince(t) \/ MissedAcquire(t) \/ MissedBody(t)
          \/ CallCount(t) \/ CountReturn(t)

SpecLocks == Init /\ [][NextLocks]_vars

\* the event loop runs every task that is ready: a call that can take its
\* next step inside the manager, or return to its caller, eventually does
InCall(t) == InManager(t) \/ CountReturn(t)

SpecLive == SpecLocks /\ \A t \in Callers : WF_vars(InCall(t))

\* the task publishes to slug A
BufferBroadcast(t) ==
    \E ty \in DomainTypes : Publish(t, "A", ty, MaxPublishes)

\* one task, with one queue connected to slug A, publishes to it and asks
\* for missed events, one call after the other
NextBuffer ==
    \/ BufferBroadcast("t1") \/ BroadcastStep("t1")
    \/ CallMissed("t1") \/ MissedEnter("t1") \/ MissedAcquire("t1") \/ MissedBody("t1")
    \/ GetLockStep("t1")

SpecBuffer == InitStream /\ [][NextBuffer]_vars

\* ------------------------------------------------------- the text of a message
\* a text is a sequence of characters; some pieces that hold no line feed,
\* quote or backslash are written as one element
LF == "\n"

\* the longest string in the data of a formatted event
MaxText == 2

RECURSIVE Strings(_)
\* the strings of at most n characters, of which one is a line feed and one
\* a quote
Strings(n) ==
    IF n = 0 THEN {<<>>}
    ELSE Strings(n - 1) \cup
         {Append(w, c) : w \in {x \in Strings(n - 1) : Len(x) = n - 1},
                         c \in {"a", LF, "\""}}

\* json.dumps of one character of a string
dumps_char(c) ==
    IF c = LF THEN "\\n"
    ELSE IF c = "\"" THEN "\\\""
    ELSE IF c = "\\" THEN "\\\\"
    ELSE c

\* json.dumps of a string
dumps_str(w) == <<"\"">> \o [i \in 1 .. Len(w) |-> dumps_char(w[i])] \o <<"\"">>

\* json.dumps of the data of an event, a dict with the one key "key"
dumps_data(d) == <<"{", "\"key\": ">> \o dumps_str(d.key) \o <<"}">>

\* mutant: the dict has no timestamp
to_dict_without_timestamp(e) ==
    [event_id |-> e.id, event |-> e.event, data |-> e.data]

\* SSEEvent.to_dict (lines 28-35)
to_dict(e) ==
    [event_id |-> e.id, event |-> e.event, data |-> e.data, timestamp |-> e.timestamp]

\* the keys of the dict in the order to_dict inserts them, which is the
\* order json.dumps writes them in
KeyOrder == <<"event_id", "event", "data", "timestamp">>

RECURSIVE dumps_members(_, _)
\* json.dumps of the members of payload whose keys are ks, in that order
dumps_members(payload, ks) ==
    IF ks = <<>> THEN <<>>
    ELSE LET k == Head(ks)
             v == IF k = "data" THEN dumps_data(payload[k]) ELSE dumps_str(payload[k])
         IN  <<"\"", k, "\": ">> \o v
             \o (IF Tail(ks) = <<>> THEN <<>> ELSE <<", ">>)
             \o dumps_members(payload, Tail(ks))

\* json.dumps(payload) (line 40)
dumps(payload) ==
    <<"{">> \o dumps_members(payload, SelectSeq(KeyOrder, LAMBDA k : k \in DOMAIN payload))
    \o <<"}">>

\* SSEEvent.format (lines 37-40)
format(e) ==
    <<"id: ">> \o e.id \o <<LF>>
    \o <<"event: ">> \o e.event \o <<LF>>
    \o <<"data: ">> \o dumps(to_dict(e)) \o <<LF, LF>>

\* the events that are formatted: an id as uuid4 gives it, a type of the
\* application, a string as data and a timestamp as isoformat gives it
FormatEvents ==
    {[id |-> i, event |-> <<ty>>, data |-> [key |-> w], timestamp |-> ts] :
        i \in {<<"u", "1">>, <<"u", "2">>},
        ty \in {"item_added", "item_updated", "item_removed", "currency_updated",
                "connection_count", "heartbeat"},
        w \in Strings(MaxText),
        ts \in {<<"T", "1">>, <<"T", "2">>}}

\* an event is in the replay buffer of slug A and in the queue of a stream
InitFormat ==
    \E e \in FormatEvents :
        /\ connections = [s \in {"A"} |-> {1}]
        /\ event_history = [s \in {"A"} |-> <<e>>]
        /\ locks = EmptyDict
        /\ global_lock = FALSE
        /\ locked = {}
        /\ items = << <<e>> >>
        /\ taken = <<0>>
        /\ qslug = <<"A">>
        /\ tk = [t \in Tasks |-> Idle]
        /\ streams = EmptyDict
        /\ emitted = << <<>> >>
        /\ beats = 0
        /\ nev = [t \in Tasks |-> 0]
        /\ published = [s \in Topics |-> <<>>]
        /\ removals = [s \in Topics |-> 0]
        /\ noops = {}
        /\ ncalls = 0

\* yield event.format() for an event of the replay (line 228)
FormatReplayed ==
    /\ emitted[1] = <<>>
    /\ emitted' = [emitted EXCEPT ![1] = Append(@, format(event_history["A"][1]))]
    /\ UNCHANGED <<locks, global_lock, locked, nev, ncalls, tk, streams, beats>>
    /\ Unchanged_registry /\ Unchanged_queues

\* yield event.format() for an event got from the queue (lines 244-245)
FormatLive ==
    /\ Len(emitted[1]) = 1
    /\ Mailbox(1) # <<>>
    /\ emitted' = [emitted EXCEPT ![1] = Append(@, format(Head(Mailbox(1))))]
    /\ taken' = [taken EXCEPT ![1] = @ + 1]
    /\ UNCHANGED <<locks, global_lock, locked, nev, ncalls, tk, streams, beats>>
    /\ UNCHANGED <<items, qslug>>
    /\ Unchanged_registry

NextFormat == FormatReplayed \/ FormatLive

SpecFormat == InitFormat /\ [][NextFormat]_vars

\* ================================================================ claims
\* the task that moves in a step
Moved(t) == tk'[t] # tk[t]

\* the domain events of a sequence of events
DomainOnly(seq) == SelectSeq(seq, LAMBDA e : e.event \in DomainTypes)

\* how many times e stands in seq
Occurrences(seq, e) == Cardinality({i \in 1 .. Len(seq) : seq[i] = e})

\* the publish of event e is still delivering
Delivering(e) ==
    \E t \in Tasks : tk[t].pc = "broadcast_put" /\ tk[t].event = e

PublishedAfter(s, p) ==
    [i \in 1 .. Len(published[s]) - p |-> published[s][p + i].e]

\* how many messages stream q has sent under the identifier id
Sent(q, id) == Cardinality({k \in 1 .. Len(emitted[q]) : emitted[q][k].id = id})

\* where stream q first sent a message under the identifier id
FirstSent(q, id) ==
    CHOOSE k \in 1 .. Len(emitted[q]) :
        emitted[q][k].id = id /\ \A j \in 1 .. k - 1 : emitted[q][j].id # id

\* the streams whose presented id stood in the replay buffer at their replay
Resumed == {q \in DOMAIN streams : streams[q].after > 0}

\* what get_missed_events is about to return to task t, which holds the lock
Replay(t) == MissedEvents(Get(event_history, tk[t].slug, <<>>), tk[t].last_event_id)

\* stream q waits on an empty queue and no publish is under way
Quiet(q) ==
    /\ \E t \in Clients : tk[t].queue = q /\ tk[t].pc = "live_wait"
    /\ Mailbox(q) = <<>>
    /\ \A t \in Producers : tk[t].pc = "idle"

\* C2: no duplicates across replay and live. A stream whose presented id
\* stood in the replay buffer sends every event published after that id at
\* most once, replayed events and queue events taken together.
C2_NoDuplicates ==
    \A q \in Resumed :
        \A e \in {PublishedAfter(qslug[q], streams[q].after)[i] :
                    i \in 1 .. Len(published[qslug[q]]) - streams[q].after} :
            Sent(q, e.id) <= 1

\* a stream whose presented id stood in the replay buffer, once it waits on
\* an empty queue with no publish under way, has sent every event published
\* after that id
C3_EveryEventSent ==
    \A q \in Resumed :
        Quiet(q) =>
            \A i \in streams[q].after + 1 .. Len(published[qslug[q]]) :
                Sent(q, published[qslug[q]][i].e.id) >= 1

C4_LateReconnectReplays ==
    \A t \in Clients :
        (tk[t].pc = "gme_body" /\ streams[tk[t].queue].fresh) =>
            \A p \in 1 .. Len(published[tk[t].slug]) :
                (/\ published[tk[t].slug][p].e.id = tk[t].last_event_id
                 /\ p > Len(published[tk[t].slug]) - history_limit)
                    => Replay(t) = PublishedAfter(tk[t].slug, p)

\* C5: reconnect from the last processed message. A stream that presents the
\* id of the last message an earlier stream sent, of whatever type, is
\* replayed every event published after that message was sent, when at most
\* 100 events were published since.
C5_ReconnectFromLastMessage ==
    \A t \in Clients : \A q \in DOMAIN streams :
        (/\ tk[t].pc = "gme_body"
         /\ q # tk[t].queue
         /\ emitted[q] # <<>>
         /\ emitted[q][Len(emitted[q])].id = tk[t].last_event_id
         /\ Len(published[tk[t].slug]) - streams[q].mark <= history_limit)
            => \A i \in streams[q].mark + 1 .. Len(published[tk[t].slug]) :
                  \E k \in 1 .. Len(Replay(t)) :
                      Replay(t)[k] = published[tk[t].slug][i].e

\* a stream that ended after its generator had started, and whose task has
\* finished, has its queue registered under no slug
ClosedStreamsReleased ==
    \A q \in DOMAIN streams :
        (/\ streams[q].state = "CLOSED"
         /\ \A t \in Clients : tk[t].pc = "idle" \/ tk[t].queue # q)
            => /\ \A s \in DOMAIN connections : q \notin connections[s]
               /\ <<qslug[q], q>> \notin noops

\* C6: every connect of the endpoint is matched by exactly one disconnect.
\* Once a stream has ended, by whatever cause, and its task has finished, its
\* queue is registered under no slug and no disconnect found it removed before.
C6_ConnectMatchedByDisconnect ==
    \A q \in DOMAIN streams :
        (/\ streams[q].state \in {"ABANDONED", "CLOSED"}
         /\ \A t \in Clients : tk[t].pc = "idle" \/ tk[t].queue # q)
            => /\ \A s \in DOMAIN connections : q \notin connections[s]
               /\ <<qslug[q], q>> \notin noops

\* C7: connect hands out a queue no earlier connect handed out and raises the
\* slug's connection count by exactly 1; a disconnect of a registered queue
\* lowers it by exactly 1; the count always equals the connects minus the
\* disconnects that removed a queue, and is never negative.
C7_ConnectionCount ==
    [][\A s \in Topics :
          LET c == ConnectionCount(connections, s)
              c2 == ConnectionCount(connections', s)
          IN  /\ c2 = Cardinality({q \in 1 .. Len(qslug') : qslug'[q] = s}) - removals'[s]
              /\ c2 >= 0
              /\ \A t \in Tasks :
                    (Moved(t) /\ tk[t].slug = s) =>
                      /\ tk[t].pc = "connect_body" =>
                           /\ c2 = c + 1
                           /\ tk'[t].queue \notin Queues
                           /\ \A x \in DOMAIN connections : tk'[t].queue \notin connections[x]
                           /\ tk'[t].queue \in connections'[s]
                      /\ (tk[t].pc = "disconnect_body"
                            /\ tk[t].queue \in Get(connections, s, {})) => c2 = c - 1
      ]_vars

\* C7 witness: a slug that has seen a disconnect remove a queue and still
\* has a queue registered
C7_Witness ==
    \E s \in Topics : removals[s] >= 1 /\ ConnectionCount(connections, s) >= 1

\* C8: disconnect is idempotent. No step of a disconnect call changes any
\* connection set, except the one step that finds its queue registered under
\* its slug; in particular a disconnect of a queue that is not registered
\* (removed before, never registered, or a slug never seen) changes nothing.
C8_DisconnectIdempotent ==
    [][\A t \in Tasks :
          (Moved(t) /\ tk[t].op = "disconnect") =>
             \/ connections' = connections
             \/ /\ tk[t].pc = "disconnect_body"
                /\ tk[t].queue \in Get(connections, tk[t].slug, {})
                /\ connections' = Discard(connections, tk[t].slug, tk[t].queue)
      ]_vars

\* C8 witness: a disconnect of a queue under its own slug found the queue
\* already removed (a second disconnect), and the call has returned
C8_Witness ==
    \E q \in Queues :
        /\ <<qslug[q], q>> \in noops
        /\ \A t \in Tasks : tk[t].pc = "idle"

\* C9: fan-out. Every event recorded for a slug is put at most once into each
\* queue, only into the queues registered when it was recorded, and exactly
\* once into each of them when the publish has returned; what a queue and the
\* replay buffer hold under the event's id is the event itself.
C9_FanOut ==
    \A s \in Topics : \A i \in 1 .. Len(published[s]) :
        LET p == published[s][i]
        IN  /\ \A q \in Queues :
                 /\ Occurrences(items[q], p.e) <= (IF q \in p.to THEN 1 ELSE 0)
                 /\ (q \in p.to /\ ~Delivering(p.e)) => Occurrences(items[q], p.e) = 1
                 /\ \A k \in 1 .. Len(items[q]) : items[q][k].id = p.e.id => items[q][k] = p.e
            /\ LET h == Get(event_history, s, <<>>)
               IN  \A k \in 1 .. Len(h) : h[k].id = p.e.id => h[k] = p.e

\* C9 witness: a publish that has returned after delivering to two queues
C9_Witness ==
    \E s \in Topics : \E i \in 1 .. Len(published[s]) :
        /\ Cardinality(published[s][i].to) = 2
        /\ ~Delivering(published[s][i].e)
        /\ \A q \in published[s][i].to : Occurrences(items[q], published[s][i].e) = 1

\* the events MissedEvents returns on slug s, whatever identifier of its
\* history it is asked for, were all published to s and to no other slug
SinceIsolated(s) ==
    LET h == Get(event_history, s, <<>>)
    IN  \A n \in 1 .. Len(h) :
          LET m == MissedEvents(h, h[n].id)
          IN  \A k \in 1 .. Len(m) :
                /\ \E i \in 1 .. Len(published[s]) : published[s][i].e = m[k]
                /\ \A x \in Topics \ {s} :
                      \A i \in 1 .. Len(published[x]) : published[x][i].e.id # m[k].id

\* C10: topic isolation. A step of a call on one slug leaves the connection
\* set, the replay buffer and the queues of every other slug as they were, and
\* get_missed_events on a slug returns only events published to that slug.
C10_TopicIsolation ==
    [][\A s \in Topics :
          /\ SinceIsolated(s)'
          /\ \A t \in Tasks :
                (Moved(t) /\ tk[t].slug # s /\ tk[t].pc # "idle") =>
                   /\ (s \in DOMAIN connections) = (s \in DOMAIN connections')
                   /\ Get(connections', s, {}) = Get(connections, s, {})
                   /\ (s \in DOMAIN event_history) = (s \in DOMAIN event_history')
                   /\ Get(event_history', s, <<>>) = Get(event_history, s, <<>>)
                   /\ \A q \in Queues : qslug[q] = s => items'[q] = items[q]
      ]_vars

\* C10 witness: an event published to one slug has reached a queue of that
\* slug while another slug has a registered queue and its own replay buffer
C10_Witness ==
    \E a \in Topics, b \in Topics :
        /\ a # b
        /\ ConnectionCount(connections, b) >= 1
        /\ Len(published[a]) >= 1
        /\ \E q \in Queues : qslug[q] = a /\ Occurrences(items[q], published[a][1].e) = 1

\* the events published to slug s, in publish order
PublishedEvents(s) == [i \in 1 .. Len(published[s]) |-> published[s][i].e]

\* h is the end of seq
IsSuffix(h, seq) ==
    /\ Len(h) <= Len(seq)
    /\ h = SubSeq(seq, Len(seq) - Len(h) + 1, Len(seq))

\* C11: replay buffer bound. After every step each slug's replay buffer
\* holds at most 100 events, and they are the most recent events published
\* to the slug, in publish order; the step of a publish that records appends
\* its event and, when the buffer was full, evicts exactly the oldest one.
C11_ReplayBufferBound ==
    [][\A s \in DOMAIN event_history' :
          LET h == event_history'[s]
              old == Get(event_history, s, <<>>)
          IN  /\ Len(h) <= history_limit
              /\ IsSuffix(h, PublishedEvents(s)')
              /\ \A t \in Tasks :
                    (Moved(t) /\ tk[t].pc = "broadcast_body" /\ tk[t].slug = s) =>
                        h = Append(IF Len(old) = history_limit THEN Tail(old) ELSE old,
                                   tk[t].event)
      ]_vars

\* C11 witness: more than 101 events were published to a slug, so the
\* oldest event was evicted more than once, and its buffer holds 100
C11_Witness ==
    \E s \in DOMAIN event_history :
        /\ Len(published[s]) > history_limit + 1
        /\ Len(event_history[s]) = history_limit
        /\ \A t \in Tasks : tk[t].pc = "idle"

\* task t is inside get_missed_events, called directly, about to return
Returning(t) == tk[t].op = "missed" /\ tk[t].pc = "gme_body"

\* C12: replay after eviction. Once M > 100 events were published to a slug,
\* get_missed_events asked for the id of the k-th of them returns nothing
\* when k <= M - 100 and the events k+1 .. M in publish order when
\* k > M - 100; with M = 105, k = 1 gives nothing and k = 10 gives 95 events.
C12_ReplayAfterEviction ==
    \A t \in Tasks :
        Returning(t) =>
            LET s == tk[t].slug
                M == Len(published[s])
            IN  M > history_limit =>
                  \A k \in 1 .. M :
                      published[s][k].e.id = tk[t].last_event_id =>
                          /\ k <= M - history_limit => Replay(t) = <<>>
                          /\ k > M - history_limit => Replay(t) = PublishedAfter(s, k)
                          /\ (M = 105 /\ k = 1) => Len(Replay(t)) = 0
                          /\ (M = 105 /\ k = 10) => Len(Replay(t)) = 95

\* C12 witness: after 105 publishes get_missed_events is asked for the id of
\* the 10th event and is about to return 95 events
C12_Witness ==
    \E t \in Tasks :
        /\ Returning(t)
        /\ Len(published[tk[t].slug]) = 105
        /\ published[tk[t].slug][10].e.id = tk[t].last_event_id
        /\ Len(Replay(t)) = 95

\* C13: get_missed_events on a known id. Asked for the id of the k-th of the
\* M <= 100 events a slug's replay buffer holds, it returns the buffered
\* events k+1 .. M in their order, nothing when k = M, and no step of the
\* call changes a replay buffer.
C13_SinceKnownId ==
    [][\A t \in Tasks :
          (Moved(t) /\ tk[t].op = "missed") =>
              /\ event_history' = event_history
              /\ tk[t].pc = "gme_body" =>
                    LET h == Get(event_history, tk[t].slug, <<>>)
                    IN  /\ Len(h) <= history_limit
                        /\ \A k \in 1 .. Len(h) :
                              h[k].id = tk[t].last_event_id =>
                                  /\ Len(Replay(t)) = Len(h) - k
                                  /\ \A i \in 1 .. Len(h) - k : Replay(t)[i] = h[k + i]
                                  /\ k = Len(h) => Replay(t) = <<>>
      ]_vars

\* C13 witness: get_missed_events, asked for the id of the most recent of
\* several buffered events, is about to return nothing
C13_Witness ==
    \E t \in Tasks :
        /\ Returning(t)
        /\ LET h == Get(event_history, tk[t].slug, <<>>)
           IN  /\ Len(h) > 1
               /\ h[Len(h)].id = tk[t].last_event_id
               /\ Replay(t) = <<>>

\* the identifiers of the events in slug s's replay buffer
BufferedIds(s) ==
    {Get(event_history, s, <<>>)[k].id : k \in 1 .. Len(Get(event_history, s, <<>>))}

\* the identifiers of the events ever published to slug s
PublishedIds(s) == {published[s][i].e.id : i \in 1 .. Len(published[s])}

\* the call of task t has no id
StaleAbsent(t) == tk[t].last_event_id = None

\* the id of task t's call was never recorded on its slug, which has a buffer
StaleUnknown(t) ==
    /\ tk[t].last_event_id \notin PublishedIds(tk[t].slug) \cup {None}
    /\ tk[t].slug \in DOMAIN event_history

\* the id of task t's call was recorded on its slug and evicted since
StaleEvicted(t) ==
    tk[t].last_event_id \in PublishedIds(tk[t].slug) \ BufferedIds(tk[t].slug)

\* the slug of task t's call was never seen, by connect or by broadcast
StaleTopic(t) ==
    /\ tk[t].last_event_id # None
    /\ tk[t].slug \notin DOMAIN event_history \cup DOMAIN connections

\* C14: a stale or absent last-seen id is not an error. get_missed_events
\* returns nothing when the id is absent, was never recorded on the slug, was
\* evicted, or the slug was never seen; without an id it returns before it
\* asks for a lock; and no step of the call changes a connection set, a
\* queue or a replay buffer.
C14_StaleIdReturnsNothing ==
    [][\A t \in Tasks :
          (Moved(t) /\ tk[t].op = "missed") =>
              /\ connections' = connections
              /\ items' = items /\ taken' = taken
              /\ event_history' = event_history
              /\ (tk'[t].pc = "idle" /\ (StaleAbsent(t) \/ StaleUnknown(t)
                                          \/ StaleEvicted(t) \/ StaleTopic(t))) =>
                    /\ Replay(t) = <<>>
                    /\ tk[t].pc = (IF StaleAbsent(t) THEN "gme_enter" ELSE "gme_body")
      ]_vars

\* C14 witness: get_missed_events is about to return for an id that was
\* recorded on the slug and has been evicted from its buffer
C14_Witness ==
    \E t \in Tasks : Returning(t) /\ StaleEvicted(t) /\ Replay(t) = <<>>

\* every event of seq was passed to broadcast for slug s and is a domain event
AllPublished(seq, s) ==
    \A k \in 1 .. Len(seq) :
        /\ \E i \in 1 .. Len(published[s]) : published[s][i].e = seq[k]
        /\ seq[k].event \in DomainTypes
        /\ seq[k].event \notin {"connection_count", "heartbeat"}

\* C15: only domain events are replayable. A replay buffer holds only events
\* that were passed to broadcast for its slug, never a connection_count or a
\* heartbeat event, and so does what get_missed_events returns and what a
\* stream replays.
C15_OnlyDomainEventsReplayable ==
    /\ \A s \in DOMAIN event_history : AllPublished(event_history[s], s)
    /\ \A t \in Tasks :
          /\ tk[t].pc = "gme_body" => AllPublished(Replay(t), tk[t].slug)
          /\ tk[t].pc = "gen_replay" => AllPublished(tk[t].missed, tk[t].slug)

\* C15 witness: a stream has sent a connection_count and a heartbeat, the
\* queues hold connection_count events, the slug's buffer is not empty, and
\* get_missed_events is about to return for the id of a message that is not
\* a domain event
C15_Witness ==
    /\ \E q \in Queues :
          /\ \E k \in 1 .. Len(emitted[q]) : emitted[q][k].event = "heartbeat"
          /\ \E k \in 1 .. Len(emitted[q]) : emitted[q][k].event = "connection_count"
          /\ \E t \in Tasks :
                /\ tk[t].pc = "gme_body"
                /\ \E k \in 1 .. Len(emitted[q]) :
                      /\ emitted[q][k].id = tk[t].last_event_id
                      /\ emitted[q][k].event # "item_added"
    /\ \E q \in Queues : \E k \in 1 .. Len(items[q]) : items[q][k].event = "connection_count"
    /\ \E s \in DOMAIN event_history : event_history[s] # <<>>

\* where queue q holds an event with the identifier id, after the step
Holds(q, id) == {k \in 1 .. Len(items'[q]) : items'[q][k].id = id}

\* C16: viewer-count notification. With no other call under way, when
\* connect or disconnect returns, every queue registered under the slug, the
\* new one included, holds exactly once the connection_count event the call
\* built, and its viewers value is the number of queues registered; the queue
\* a disconnect was given does not hold it.
C16_ViewerCountNotification ==
    [][\A t \in Tasks :
          (Moved(t) /\ tk[t].op \in {"connect", "disconnect"} /\ tk'[t].pc = "idle") =>
              LET s == tk[t].slug
                  id == uuid4(t, nev'[t])
                  left == Get(connections', s, {})
              IN  /\ \A q \in left :
                        /\ Cardinality(Holds(q, id)) = 1
                        /\ \A k \in Holds(q, id) :
                              items'[q][k] =
                                  SSEEvent(id, "connection_count", Cardinality(left))
                  /\ tk[t].op = "connect" => tk[t].queue \in left
                  /\ tk[t].op = "disconnect" =>
                        /\ tk[t].queue \notin left
                        /\ tk[t].queue \in Queues => Holds(tk[t].queue, id) = {}
      ]_vars

\* C16 witness: a disconnect that removed a queue has returned, and the
\* queue that is left holds, last, a connection_count event with viewers 1
C16_Witness ==
    \E s \in DOMAIN connections : \E q \in connections[s] :
        /\ removals[s] = 1
        /\ connections[s] = {q}
        /\ \A t \in Tasks : tk[t].pc = "idle"
        /\ Len(items[q]) = 3
        /\ items[q][3].event = "connection_count"
        /\ items[q][3].data = 1

\* where queue q holds connection_count events
CountNotices(q) == {k \in 1 .. Len(items[q]) : items[q][k].event = "connection_count"}

TaggedAt(q, p) == {k \in 1 .. Len(streams[q].tags) : streams[q].tags[k] = p}

\* the output of stream q so far: its replayed events first, which are the
\* events published after the id it presented, in that order; then its
\* snapshot, a connection_count; then what it got from its queue, in queue
\* order, and heartbeats
PhaseOrder(q) ==
    LET g == streams[q].tags
        n == Cardinality(TaggedAt(q, "gen_replay"))
        s == qslug[q]
    IN  /\ Len(g) = Len(emitted[q])
        /\ \A k \in 1 .. Len(g) :
              /\ k <= n => g[k] = "gen_replay"
              /\ k = n + 1 => g[k] = "gen_snapshot"
              /\ k > n + 1 => g[k] \in {"gen_event", "gen_heartbeat"}
        /\ n > 0 => streams[q].last_event_id # None /\ streams[q].after > 0
        /\ \A k \in 1 .. n :
              emitted[q][k] = Format(published[s][streams[q].after + k].e)
        /\ \A k \in TaggedAt(q, "gen_snapshot") : emitted[q][k].event = "connection_count"
        /\ \A k \in TaggedAt(q, "gen_heartbeat") : emitted[q][k].event = "heartbeat"
        /\ \A k \in TaggedAt(q, "gen_event") :
              emitted[q][k] =
                  Format(items[q][Cardinality({i \in TaggedAt(q, "gen_event") : i <= k})])

\* C18: stream driver phase order. Every stream sends its replayed events in
\* buffer order (only when it presented an id), then one snapshot
\* connection_count carrying the count read for it, then queue events and
\* heartbeats; nothing from the queue and no heartbeat before the snapshot,
\* no replayed event after it, and nothing once the stream is closed.
C18_PhaseOrder ==
    [][/\ \A q \in DOMAIN streams' : PhaseOrder(q)'
       /\ \A q \in DOMAIN streams :
             streams[q].state \in {"CLOSED", "ABANDONED"} => emitted'[q] = emitted[q]
       /\ \A t \in Clients :
             /\ (Moved(t) /\ tk[t].pc = "gcc_body" /\ tk[t].op = "endpoint"
                   /\ streams[tk[t].queue].state = "SNAPSHOT") =>
                     tk'[t].count = Cardinality(Get(connections, tk[t].slug, {}))
             /\ (Moved(t) /\ tk[t].pc = "gen_snapshot"
                   /\ emitted'[tk[t].queue] # emitted[tk[t].queue]) =>
                     emitted'[tk[t].queue][Len(emitted'[tk[t].queue])].data.data = tk[t].count
      ]_vars

\* C18 witness: a stream that has sent a replayed event, its snapshot, a queue
\* event and a heartbeat has been closed and its task has finished
C18_Witness ==
    \E q \in DOMAIN streams :
        /\ \A p \in YieldPoints : TaggedAt(q, p) # {}
        /\ streams[q].state = "CLOSED"
        /\ \A t \in Clients : tk[t].pc = "idle"

\* where stream q has sent domain events
DomainSent(q) == {k \in 1 .. Len(emitted[q]) : emitted[q][k].event \in DomainTypes}

\* no queue but q has been registered or removed since the streams began,
\* no disconnect is under way, and q has sent no heartbeat
Undisturbed(q) ==
    /\ Len(qslug) = 2
    /\ removals[qslug[q]] = 0 /\ noops = {}
    /\ \A t \in Tasks : tk[t].op # "disconnect"
    /\ TaggedAt(q, "gen_heartbeat") = {}

\* C19: one connection_count per new connection. A stream that presented no
\* id, with no other subscriber connecting or disconnecting meanwhile, has
\* sent, up to and including the first domain event published after its
\* connect, exactly one connection_count followed by that event.
C19_OneCountPerConnection ==
    \A q \in DOMAIN streams :
        (streams[q].last_event_id = None /\ Undisturbed(q) /\ DomainSent(q) # {}) =>
            LET first == CHOOSE k \in DomainSent(q) : \A j \in DomainSent(q) : k <= j
            IN  /\ first = 2
                /\ emitted[q][1].event = "connection_count"

\* C20: heartbeat cadence. A live stream waiting on its empty queue has sent
\* exactly one heartbeat for each of its waits that timed out, whatever the
\* wall clock read when the wait timed out.
C20_HeartbeatPerWindow ==
    \A t \in Clients :
        (tk[t].pc = "live_wait" /\ streams[tk[t].queue].state = "LIVE") =>
            Cardinality(TaggedAt(tk[t].queue, "gen_heartbeat")) = streams[tk[t].queue].windows

\* the task of stream q sends a message in this step
Sends(t) == tk[t].pc \in YieldPoints /\ emitted'[tk[t].queue] # emitted[tk[t].queue]

\* C21: heartbeat timer reset and independence. A stream sends a heartbeat
\* only when HEARTBEAT_INTERVAL units or more have passed since its previous
\* message; every message it sends restarts its own wait and leaves the other
\* streams, their waits and their tasks as they were; no heartbeat is ever
\* put into a queue.
C21_HeartbeatTimer ==
    [][ /\ \A t \in Tasks :
              Sends(t) =>
                 LET q == tk[t].queue
                 IN  /\ tk[t].pc = "gen_heartbeat" =>
                            streams[q].idle >= HEARTBEAT_INTERVAL
                     /\ streams'[q].idle = 0
                     /\ tk'[t].pc = "live_wait" => streams'[q].waited = 0
                     /\ \A o \in DOMAIN streams \ {q} : streams'[o] = streams[o]
                     /\ \A u \in Tasks \ {t} : tk'[u] = tk[u]
                     /\ items' = items
        /\ \A q \in 1 .. Len(items') : \A k \in 1 .. Len(items'[q]) :
              items'[q][k].event # "heartbeat"
      ]_vars

\* C21 witness: a stream that sent an event from its queue has then sent a
\* heartbeat, while another live stream sent a message less than
\* HEARTBEAT_INTERVAL ago and no heartbeat
C21_Witness ==
    \E q \in DOMAIN streams, o \in DOMAIN streams :
        /\ q # o
        /\ \E k \in TaggedAt(q, "gen_event") : k + 1 \in TaggedAt(q, "gen_heartbeat")
        /\ streams[o].state = "LIVE"
        /\ TaggedAt(o, "gen_event") # {}
        /\ TaggedAt(o, "gen_heartbeat") = {}
        /\ streams[o].idle < HEARTBEAT_INTERVAL
        /\ streams[q].idle < streams[o].idle

\* every event whose publish is over stands in the queue of each subscriber
\* its slug had when it was recorded, read or unread
Handed ==
    \A s \in Topics : \A i \in 1 .. Len(published[s]) :
        Delivering(published[s][i].e) \/
            \A q \in published[s][i].to : Occurrences(items[q], published[s][i].e) = 1

\* C22: publish never waits on a consumer. Every broadcast a producer has
\* begun returns, whether or not the subscribers take anything from their
\* queues, and by then its event stands in the queue of every subscriber.
C22_PublishReturns ==
    \A t \in Producers : (tk[t].op = "broadcast") ~> (tk[t].pc = "idle" /\ Handed)

\* C22 witness: a publish has returned, its event stands in the queue of a
\* subscriber that has never taken anything from its queue and has been sent
\* by the stream of another subscriber
C22_Witness ==
    /\ \A t \in Producers : tk[t].pc = "idle"
    /\ \E i \in 2 .. Len(published["A"]) : \E q \in published["A"][i].to \ {1} :
          /\ 1 \in published["A"][i].to /\ taken[1] = 0
          /\ Occurrences(items[1], published["A"][i].e) = 1
          /\ q \in DOMAIN streams /\ taken[q] > 0
          /\ Sent(q, published["A"][i].e.id) >= 1

\* the put of task t's broadcast raises in this step
Raised(t) ==
    /\ tk[t].pc = "broadcast_put"
    /\ published'[tk[t].slug] # published[tk[t].slug]

\* C23: delivery failure is local. A put that raises during a broadcast
\* leaves the queues, the replay buffers and the connection sets as they
\* were, and the broadcast goes on to its next queue, or returns if there is
\* none; when the broadcast has returned, its event is the newest of the
\* replay buffer and stands once in the queue of every snapshotted subscriber
\* whose put did not raise, and in no queue whose put raised.
C23_DeliveryFailureIsLocal ==
    [][ \A t \in Tasks :
          /\ Raised(t) =>
                /\ items' = items
                /\ event_history' = event_history
                /\ connections' = connections
                /\ tk'[t] = Idle \/
                      /\ tk'[t].pc = "broadcast_put"
                      /\ tk'[t].event = tk[t].event
                      /\ Cardinality(tk'[t].conns) = Cardinality(tk[t].conns) - 1
          /\ (tk[t].pc = "broadcast_put" /\ tk'[t] = Idle) =>
                LET s == tk[t].slug
                    p == published'[s][Pos(s, tk[t].event)]
                    h == event_history'[s]
                IN  /\ h[Len(h)] = tk[t].event
                    /\ \A q \in p.to :
                          Occurrences(items'[q], tk[t].event) =
                             IF q \in p.failed THEN 0 ELSE 1
      ]_vars

\* C23 witness: a broadcast to two subscribers has returned after the put
\* into one queue raised; its event stands in the other queue and in the
\* replay buffer
C23_Witness ==
    /\ \A t \in Tasks : tk[t].pc = "idle"
    /\ \E s \in Topics : \E i \in 1 .. Len(published[s]) :
          LET p == published[s][i]
          IN  /\ p.failed # {} /\ p.to \ p.failed # {}
              /\ \A q \in p.to \ p.failed : Occurrences(items[q], p.e) = 1
              /\ \A q \in p.failed : Occurrences(items[q], p.e) = 0
              /\ \E k \in 1 .. Len(event_history[s]) : event_history[s][k] = p.e

\* C24: publish with no subscribers. A broadcast that records its event
\* while the slug has no queue registered, whether or not the slug has been
\* seen before, returns in that step, having appended the event to the
\* slug's replay buffer; it creates no connection set, puts the event into
\* no queue, and the slug's connection count stays 0.
C24_PublishWithoutSubscribers ==
    [][ \A t \in Tasks :
          (tk[t].pc = "broadcast_body" /\ Moved(t)
             /\ Get(connections, tk[t].slug, {}) = {}) =>
                LET s == tk[t].slug
                    h == Get(event_history, s, <<>>)
                IN  /\ tk'[t] = Idle
                    /\ s \in DOMAIN event_history'
                    /\ Len(h) < history_limit => event_history'[s] = Append(h, tk[t].event)
                    /\ event_history'[s][Len(event_history'[s])] = tk[t].event
                    /\ connections' = connections
                    /\ s \notin DOMAIN connections'
                    /\ ConnectionCount(connections', s) = 0
                    /\ items' = items
      ]_vars

\* C24 witness: every call has returned; a slug no queue was ever created
\* for has no connection set, and its replay buffer holds the events
\* published to it
C24_Witness ==
    /\ \A t \in Tasks : tk[t].pc = "idle"
    /\ \E s \in Topics :
          /\ \A q \in Queues : qslug[q] # s
          /\ s \notin DOMAIN connections
          /\ published[s] # <<>>
          /\ s \in DOMAIN event_history
          /\ event_history[s] = [i \in 1 .. Len(published[s]) |-> published[s][i].e]

\* C25: last disconnect. No step of a disconnect changes a replay buffer; the
\* disconnect that removes the last queue registered under a slug deletes
\* the slug's connection set, so that its connection count is 0.
C25_LastDisconnect ==
    [][ \A t \in Tasks :
          (tk[t].op = "disconnect" /\ Moved(t)) =>
              /\ event_history' = event_history
              /\ (tk[t].pc = "disconnect_body"
                     /\ Get(connections, tk[t].slug, {}) = {tk[t].queue}) =>
                    /\ tk[t].slug \notin DOMAIN connections'
                    /\ ConnectionCount(connections', tk[t].slug) = 0
                    /\ \A s \in DOMAIN connections \ {tk[t].slug} :
                          s \in DOMAIN connections' /\ connections'[s] = connections[s]
      ]_vars

\* C25 witness: every call has returned; the only queue of a slug has been
\* removed, the slug has no connection set, and its replay buffer still
\* holds the event published to it
C25_Witness ==
    /\ \A t \in Tasks : tk[t].pc = "idle"
    /\ \E s \in Topics :
          /\ removals[s] = 1
          /\ Cardinality({q \in Queues : qslug[q] = s}) = 1
          /\ s \notin DOMAIN connections
          /\ s \in DOMAIN event_history
          /\ event_history[s] # <<>>

\* the step is one of the end of task t's stream: the break out of its live
\* loop, or a step of the disconnect that follows
Ending(t) ==
    /\ Moved(t)
    /\ tk[t].op = "endpoint"
    /\ tk[t].queue \in DOMAIN streams'
    /\ streams'[tk[t].queue].state = "CLOSED"

\* C26: fault containment. While a stream ends after a fault or a
\* cancellation in its live loop, no other stream changes state and no other
\* task moves; every other queue stays registered, no replay buffer changes,
\* nothing is taken from or sent on behalf of another queue, and all that is
\* put into another queue is a connection_count event.
C26_FaultContainment ==
    [][ \A t \in Tasks :
          Ending(t) =>
             LET q == tk[t].queue
             IN  /\ \A o \in DOMAIN streams \ {q} : streams'[o] = streams[o]
                 /\ \A u \in Tasks \ {t} : tk'[u] = tk[u]
                 /\ \A s \in DOMAIN connections :
                       connections[s] \ {q} # {} =>
                          /\ s \in DOMAIN connections'
                          /\ connections'[s] \in {connections[s], connections[s] \ {q}}
                 /\ event_history' = event_history
                 /\ taken' = taken /\ emitted' = emitted
                 /\ \A o \in Queues \ {q} :
                       \/ items'[o] = items[o]
                       \/ \E c \in 0 .. Len(items) :
                             items'[o] = Append(items[o],
                                SSEEvent(uuid4(t, nev'[t]), "connection_count", c))
      ]_vars

\* C26 witness: a stream that was cancelled in its live loop is closed and
\* its task has finished; the other stream is live and registered, as is the
\* earlier viewer, and both were told the count that was left
C26_Witness ==
    \E q \in DOMAIN streams, o \in DOMAIN streams :
        /\ q # o
        /\ streams[q].state = "CLOSED" /\ tk["t3"].pc = "idle"
        /\ streams[o].state = "LIVE"
        /\ connections["A"] = {1, o}
        /\ \A x \in {1, o} :
              items[x][Len(items[x])] = SSEEvent(uuid4("t3", nev["t3"]), "connection_count", 2)

\* the queues event e has been put into
Receivers(e) == {q \in Queues : Occurrences(items[q], e) > 0}

\* C27: atomic record-and-snapshot. The step of a broadcast that appends its
\* event to the replay buffer also takes the queues to deliver to, which are
\* the queues registered under the slug in that very state; the event is put
\* into those queues only, and into each of them once the broadcast has
\* returned. A queue registered before the append is among them, a queue
\* registered after it is not.
C27_AtomicRecordAndSnapshot ==
    [][ /\ \A t \in Tasks :
              (tk[t].pc = "broadcast_body" /\ Moved(t)) =>
                 LET s == tk[t].slug
                     c == Get(connections, s, {})
                     h == event_history'[s]
                 IN  /\ h[Len(h)] = tk[t].event
                     /\ connections' = connections
                     /\ published'[s][Len(published'[s])] =
                           [e |-> tk[t].event, to |-> c, failed |-> {}, late |-> {}]
                     /\ IF c = {} THEN tk'[t] = Idle
                        ELSE /\ tk'[t].pc = "broadcast_put"
                             /\ tk'[t].conns = c
                             /\ tk'[t].event = tk[t].event
        /\ \A s \in Topics : \A i \in 1 .. Len(published'[s]) :
              LET p == published'[s][i]
                  got == {q \in 1 .. Len(items') : Occurrences(items'[q], p.e) > 0}
              IN  /\ got \subseteq p.to
                  /\ (\A t \in Tasks : tk'[t].pc = "broadcast_put" => tk'[t].event # p.e)
                        => got = p.to
      ]_vars

\* C27 witness: every call has returned; a connect ran between the critical
\* section of a broadcast and its delivery: the earlier queue holds the count
\* of two before the event, and the new queue, registered, does not hold the
\* event
C27_Witness ==
    /\ \A t \in Tasks : tk[t].pc = "idle"
    /\ \E s \in Topics : \E i \in 1 .. Len(published[s]) :
          \E q \in published[s][i].to : \E o \in Get(connections, s, {}) :
              /\ o \notin published[s][i].to
              /\ o \notin Receivers(published[s][i].e)
              /\ \E j \in 1 .. Len(items[q]) : \E k \in j + 1 .. Len(items[q]) :
                    /\ items[q][j].event = "connection_count"
                    /\ items[q][j].data = 2
                    /\ items[q][k] = published[s][i].e

\* C28: teardown racing with delivery. A disconnect's critical section
\* removes its queue, and lowers the slug's connection count by one, also
\* when a broadcast that is still delivering holds the queue in its snapshot;
\* a queue that is not registered is registered by no step but its own
\* connect; and the put of a broadcast into a queue that is no longer
\* registered appends the event to that queue, changes no connection set, and
\* the broadcast goes on to its next queue or returns.
C28_TeardownRacingWithDelivery ==
    [][ /\ \A t \in Tasks :
              /\ (tk[t].pc = "disconnect_body" /\ Moved(t)
                     /\ tk[t].queue \in Get(connections, tk[t].slug, {})) =>
                    /\ tk[t].queue \notin Get(connections', tk[t].slug, {})
                    /\ ConnectionCount(connections', tk[t].slug) =
                          ConnectionCount(connections, tk[t].slug) - 1
              /\ (tk[t].pc = "broadcast_put" /\ Moved(t) /\ items' # items) =>
                    \E q \in tk[t].conns :
                        /\ items' = [items EXCEPT ![q] = Append(@, tk[t].event)]
                        /\ connections' = connections
                        /\ tk'[t] = IF tk[t].conns = {q} THEN Idle
                                    ELSE [tk[t] EXCEPT !.conns = tk[t].conns \ {q}]
        /\ \A q \in Queues :
              q \notin Get(connections, qslug[q], {}) =>
                  q \notin Get(connections', qslug[q], {})
        /\ \A s \in Topics : \A i \in 1 .. Len(published'[s]) :
              \A q \in published'[s][i].late :
                  /\ q \in published'[s][i].to
                  /\ q \notin Get(connections', s, {})
                  /\ Occurrences(items'[q], published'[s][i].e) = 1
      ]_vars

\* C28 witness: every call has returned; a queue was removed while a
\* broadcast held it in its snapshot, the event was put into it afterwards,
\* the queue is not registered, and the slug's count is the number of queues
\* created for it less the one removed
C28_Witness ==
    /\ \A t \in Tasks : tk[t].pc = "idle"
    /\ \E s \in Topics : \E i \in 1 .. Len(published[s]) :
          \E q \in published[s][i].late :
              /\ q \notin Get(connections, s, {})
              /\ items[q][Len(items[q])] = published[s][i].e
              /\ removals[s] = 1
              /\ ConnectionCount(connections, s) =
                    Cardinality({o \in Queues : qslug[o] = s}) - 1

\* where a task is inside a critical section of a slug's lock: connect,
\* disconnect, get_connection_count, _broadcast_connection_count, broadcast
\* and get_missed_events
Sections == {"connect_body", "disconnect_body", "gcc_body", "bcc_body",
             "broadcast_body", "gme_body"}

\* where a task waits for the slug's lock it was handed
Waits == {"connect_acquire", "disconnect_acquire", "gcc_acquire", "bcc_acquire",
          "broadcast_acquire", "gme_acquire"}

\* C29: one lock per topic. The lock installed for a slug is never replaced;
\* every task that waits for or holds a slug's lock has the lock installed
\* for that slug; and at most one task is inside a critical section of a
\* slug at any time.
C29_OneLockPerTopic ==
    [][ /\ \A s \in DOMAIN locks : s \in DOMAIN locks' /\ locks'[s] = locks[s]
        /\ \A t \in Tasks :
              tk'[t].pc \in Sections \cup Waits =>
                  /\ tk'[t].slug \in DOMAIN locks'
                  /\ tk'[t].lock = locks'[tk'[t].slug]
        /\ \A s \in Topics :
              Cardinality({t \in Tasks : tk'[t].pc \in Sections /\ tk'[t].slug = s}) <= 1
      ]_vars

\* C29 witness: two tasks asked for the lock of the same slug in their first
\* calls; both were handed the lock that one of them installed, the other is
\* inside its critical section and the installer waits for the lock
C29_Witness ==
    /\ ncalls = 2
    /\ \E t \in Tasks, u \in Tasks :
          /\ t # u
          /\ tk[t].slug = tk[u].slug
          /\ tk[t].pc \in Sections /\ tk[u].pc \in Waits
          /\ tk[t].lock = tk[u].lock
          /\ tk[t].lock \in locked
          /\ tk[t].lock = <<tk[t].slug, u>>

\* C30: topics do not contend. A task that has been handed the lock installed
\* for its slug neither waits for nor holds the registry-wide lock, so it
\* never waits for a task that took the registry-wide lock for another slug.
C30_TopicsDoNotContend ==
    \A t \in Tasks :
        (tk[t].slug \in DOMAIN locks /\ tk[t].lock = locks[tk[t].slug]) =>
            tk[t].pc \notin {"gl_acquire", "gl_body"}

\* where a task puts into a queue, waits on its queue, or sends a message
IOPoints == {"broadcast_put", "bcc_put", "live_wait"} \cup YieldPoints

\* C31: no lock across delivery or I/O. Every slug lock that is held is held
\* by a task inside the critical section it took it for, and the
\* registry-wide lock by a task inside _get_lock; so a task that puts into a
\* queue, waits on its queue or sends a message holds no lock, and the
\* delivery loops start after the release.
C31_NoLockAcrossDelivery ==
    /\ \A l \in locked :
          Cardinality({t \in Tasks : tk[t].pc \in Sections /\ tk[t].lock = l}) = 1
    /\ global_lock <=> \E t \in Tasks : tk[t].pc = "gl_body"
    /\ \A t \in Tasks :
          tk[t].pc \in Sections => tk[t].lock \in locked
    /\ \A t \in Tasks :
          (tk[t].pc \in IOPoints /\ tk[t].lock \in locked) =>
              \E u \in Tasks \ {t} : tk[u].pc \in Sections /\ tk[u].lock = tk[t].lock

\* C31 witness: a broadcast is delivering while the lock of its slug is held
\* by another task, which is inside a critical section
C31_Witness ==
    \E t \in Tasks, u \in Tasks :
        /\ t # u
        /\ tk[t].pc = "broadcast_put"
        /\ tk[u].pc \in Sections
        /\ tk[u].slug = tk[t].slug
        /\ tk[u].lock = tk[t].lock
        /\ locked = {tk[t].lock}

\* C32: connection_count is a read. No step of a get_connection_count call
\* changes a connection set, a queue or a replay buffer, or creates an entry
\* for its slug in either dict; the number it returns is the number of
\* queues registered under the slug when it holds the lock, which is 0 for a
\* slug that has no connection set.
C32_ConnectionCountReads ==
    [][ \A t \in Tasks :
          (tk[t].op = "count" /\ Moved(t)) =>
              /\ connections' = connections
              /\ event_history' = event_history
              /\ items' = items /\ taken' = taken
              /\ tk[t].pc = "gcc_body" =>
                    /\ tk'[t].pc = "count_done"
                    /\ tk'[t].count = Cardinality({q \in Queues :
                          \E s \in DOMAIN connections :
                              s = tk[t].slug /\ q \in connections[s]})
      ]_vars

\* C32 witness: get_connection_count has returned 0 for a slug no other call
\* was ever made on, while the other slug has a queue registered; the slug
\* has no connection set and no replay buffer
C32_Witness ==
    \E t \in Tasks :
        /\ tk[t].pc = "count_done" /\ tk[t].count = 0
        /\ tk[t].slug \notin DOMAIN connections
        /\ tk[t].slug \notin DOMAIN event_history
        /\ \A q \in Queues : qslug[q] # tk[t].slug
        /\ published[tk[t].slug] = <<>>
        /\ connections # EmptyDict

RECURSIVE Lines(_)
\* the lines of a text, each ended by a line feed; what follows the last line
\* feed, if anything, is a last line
Lines(text) ==
    IF text = <<>> THEN <<>>
    ELSE LET ends == {i \in 1 .. Len(text) : text[i] = LF}
         IN  IF ends = {} THEN <<text>>
             ELSE LET k == CHOOSE i \in ends : \A j \in ends : i <= j
                  IN  <<SubSeq(text, 1, k - 1)>> \o Lines(SubSeq(text, k + 1, Len(text)))

\* C33: wire format. The text of an event is four lines: 'id: ' and its id,
\* 'event: ' and its type, 'data: ' and a JSON object, and an empty line; the
\* object has the keys event_id, event, data and timestamp, in that order,
\* with the id and the type of the first two lines; and the text sent for
\* the event from the queue is the text sent for it from the replay.
C33_WireFormat ==
    \A k \in 1 .. Len(emitted[1]) :
        LET e == items[1][1]
            ls == Lines(emitted[1][k])
        IN  /\ Len(ls) = 4
            /\ ls[1] = <<"id: ">> \o e.id
            /\ ls[2] = <<"event: ">> \o e.event
            /\ ls[3] = <<"data: ", "{">>
                         \o <<"\"", "event_id", "\": ">> \o dumps_str(e.id) \o <<", ">>
                         \o <<"\"", "event", "\": ">> \o dumps_str(e.event) \o <<", ">>
                         \o <<"\"", "data", "\": ">> \o dumps_data(e.data) \o <<", ">>
                         \o <<"\"", "timestamp", "\": ">> \o dumps_str(e.timestamp)
                         \o <<"}">>
            /\ ls[4] = <<>>
            /\ emitted[1][k] = emitted[1][1]

\* C33 witness: an event whose data holds a line feed and a quote has been
\* sent from the replay and from the queue
C33_Witness ==
    /\ Len(emitted[1]) = 2
    /\ \E i \in 1 .. Len(items[1][1].data.key), j \in 1 .. Len(items[1][1].data.key) :
          items[1][1].data.key[i] = LF /\ items[1][1].data.key[j] = "\""

\* C34: get_missed_events on the N-th from last. Asked for the id of the
\* event that stands N-th from last among the M <= 100 events of a slug's
\* replay buffer, the last being the first from last, it returns the N - 1
\* events that stand after it, in their order.
C34_SinceNthFromLast ==
    \A t \in Tasks :
        Returning(t) =>
            LET h == Get(event_history, tk[t].slug, <<>>)
                M == Len(h)
            IN  /\ M <= history_limit
                /\ \A N \in 1 .. M :
                      h[M - N + 1].id = tk[t].last_event_id =>
                          Replay(t) = SubSeq(h, M - N + 2, M)

\* C34 as the claim words it: asked for the id of the N-th from last of the
\* M <= 100 events of a slug's replay buffer, get_missed_events returns M - N
\* events.
C34_SinceReturnsMMinusN ==
    \A t \in Tasks :
        Returning(t) =>
            LET h == Get(event_history, tk[t].slug, <<>>)
                M == Len(h)
            IN  \A N \in 1 .. M :
                    h[M - N + 1].id = tk[t].last_event_id => Len(Replay(t)) = M - N

\* C34 witness: get_missed_events, asked for the id of the third from last of
\* ten buffered events, is about to return the last two
C34_Witness ==
    \E t \in Tasks :
        /\ Returning(t)
        /\ LET h == Get(event_history, tk[t].slug, <<>>)
           IN  /\ Len(h) = 10
               /\ h[8].id = tk[t].last_event_id
               /\ Replay(t) = <<h[9], h[10]>>

\* C35: connect does not touch history. Across all operations a slug's
\* replay buffer, once it exists, stays in the history map and changes only
\* by the step of a publish that appends its event, evicting the oldest at
\* capacity; in particular the step of a connect, on a slug with connections
\* or on one whose connection set was deleted by the last disconnect,
\* leaves it as it was, and it is never emptied.
C35_ConnectKeepsHistory ==
    [][\A s \in DOMAIN event_history :
          LET old == event_history[s]
          IN  /\ s \in DOMAIN event_history'
              /\ \/ event_history'[s] = old
                 \/ \E t \in Tasks :
                       /\ Moved(t) /\ tk[t].pc = "broadcast_body" /\ tk[t].slug = s
                       /\ event_history'[s] =
                              Append(IF Len(old) = history_limit THEN Tail(old) ELSE old,
                                     tk[t].event)
      ]_vars


\* the locks task t holds: the registry-wide one inside _get_lock, the
\* slug's lock it was handed inside a critical section
HeldBy(t) ==
    (IF tk[t].pc = "gl_body" THEN {<<"_global_lock">>} ELSE {})
    \cup (IF tk[t].pc \in Sections THEN {tk[t].lock} ELSE {})

\* C36: deadlock freedom. Every lock that is held is held by exactly one
\* task and no task holds two: the registry-wide lock is held only inside
\* _get_lock, by a task that neither holds nor waits for a slug's lock, and a
\* slug's lock only inside the critical section it was taken for; a task
\* that is not in a call holds none. Hence, when every ready task is
\* eventually run, every connect, disconnect, broadcast,
\* get_connection_count and get_missed_events call returns, whatever the
\* interleaving and whether the calls are on the same slug or not.
C36_DeadlockFreedom ==
    /\ [](/\ \A t \in Tasks : Cardinality(HeldBy(t)) <= 1
          /\ \A t \in Tasks : tk[t].pc = "idle" => HeldBy(t) = {}
          /\ locked = UNION {HeldBy(t) \ {<<"_global_lock">>} : t \in Tasks}
          /\ global_lock <=> \E t \in Tasks : <<"_global_lock">> \in HeldBy(t)
          /\ \A t \in Tasks, u \in Tasks :
                (t # u /\ HeldBy(t) # {}) => HeldBy(t) # HeldBy(u))
    /\ \A t \in Callers :
          \A o \in {"connect", "disconnect", "broadcast", "count", "missed"} :
              (tk[t].op = o) ~> (tk[t].pc = "idle")

\* C36 witness: with every call of the run started, a task waits for the
\* lock of its slug while another task holds it inside
\* _broadcast_connection_count, the call its connect made after releasing
\* that same lock
C36_Witness ==
    /\ ncalls = MaxCalls
    /\ \E t \in Callers, u \in Callers :
          /\ t # u
          /\ tk[t].pc \in Waits
          /\ tk[u].pc = "bcc_body" /\ tk[u].op = "connect"
          /\ tk[t].lock = tk[u].lock
          /\ HeldBy(u) = {tk[u].lock}
          /\ locked = {tk[u].lock}


\* queue q is registered under no slug: a disconnect removed it
Gone(q) == \A s \in DOMAIN connections : q \notin connections[s]

\* where a task is inside a delivery loop
PutPoints == {"broadcast_put", "bcc_put"}

\* C37: no event after unsubscribe. Once the critical section of
\* disconnect has removed a queue it stays removed; the snapshot that a
\* broadcast or a _broadcast_connection_count takes from then on does not
\* hold it; a delivery loop puts only into queues of the snapshot it took,
\* which it never adds to; and nothing but a delivery loop puts into a
\* queue. So nothing is put into the queue by a call that took its snapshot
\* after the removal.
C37_NoEventAfterUnsubscribe ==
    [][ /\ \A q \in Queues : Gone(q) => Gone(q)'
        /\ \A t \in Tasks :
              (Moved(t) /\ tk[t].pc \in {"broadcast_body", "bcc_body"}
                  /\ tk'[t].pc \in PutPoints) =>
                  \A q \in tk'[t].conns :
                      ~Gone(q) /\ q \in Get(connections, tk[t].slug, {})
        /\ \A t \in Tasks :
              (Moved(t) /\ tk[t].pc \in PutPoints) =>
                  /\ \E q \in tk[t].conns :
                        items' = [items EXCEPT ![q] = Append(@, tk[t].event)]
                  /\ tk'[t].pc = tk[t].pc => tk'[t].conns \subseteq tk[t].conns
        /\ \A q \in Queues :
              items'[q] # items[q] =>
                  \E t \in Tasks : Moved(t) /\ tk[t].pc \in PutPoints /\ q \in tk[t].conns
      ]_vars

\* C37 witness: the producer's calls have returned; queue 1 was removed from
\* slug A while queue 2 stayed; the connection_count event of that disconnect
\* and an event published after it are in queue 2 and not in queue 1
C37_Witness ==
    /\ tk["t1"].pc = "idle"
    /\ Gone(1) /\ ~Gone(2) /\ qslug[1] = "A" /\ qslug[2] = "A"
    /\ removals["A"] = 1
    /\ \E i \in 1 .. Len(published["A"]) :
          /\ published["A"][i].to = {2}
          /\ Occurrences(items[2], published["A"][i].e) = 1
          /\ Occurrences(items[1], published["A"][i].e) = 0
    /\ \E k \in 1 .. Len(items[2]) :
          /\ items[2][k].event = "connection_count" /\ items[2][k].data = 1
          /\ Occurrences(items[1], items[2][k]) = 0


\* the messages of stream q that came from its queue
FromQueue(q) == TaggedAt(q, "gen_event")

\* the generators that hold an event they got from queue q and have not
\* yielded yet
InHand(q) == {t \in Tasks : tk[t].op = "endpoint" /\ tk[t].queue = q
                              /\ tk[t].pc = "gen_event"}

\* the queues and the queue lengths the delivery is followed for
MaxLoopQueue == 2
MaxMail == 3

\* stream q is in its live loop and k events or more were put into its queue
LiveWith(q, k) ==
    IF q \in DOMAIN streams
    THEN streams[q].state = "LIVE" /\ Len(items[q]) >= k
    ELSE FALSE

\* stream q has sent k messages or more from its queue
SentFromQueue(q, k) ==
    IF q \in DOMAIN streams THEN Cardinality(FromQueue(q)) >= k ELSE FALSE

\* C38: live delivery is FIFO and complete. Nothing is got from a stream's
\* queue before its live loop; in the live loop the messages sent from the
\* queue are, in order and one for one, the events got from the queue, which
\* are the first events put into it, less the one the generator holds and
\* is about to send; every other message of the live loop is a heartbeat.
\* And while the stream stays in its live loop and is read, the k-th event
\* put into its queue is eventually the k-th message sent from the queue.
C38_LiveDeliveryFIFO ==
    /\ [](\A q \in DOMAIN streams :
            LET sent == FromQueue(q)
                n == Cardinality(sent)
            IN  /\ streams[q].state \in {"CONNECTING", "REPLAYING", "SNAPSHOT"} =>
                      taken[q] = 0 /\ sent = {}
                /\ streams[q].state = "LIVE" =>
                      /\ taken[q] = n + Cardinality(InHand(q))
                      /\ Cardinality(InHand(q)) <= 1
                      /\ \A t \in InHand(q) : tk[t].event = items[q][taken[q]]
                      /\ \A k \in sent :
                            emitted[q][k] =
                                Format(items[q][Cardinality({i \in sent : i <= k})])
                      /\ \A k \in 1 .. Len(emitted[q]) :
                            (\E i \in sent : i < k) =>
                                streams[q].tags[k] \in {"gen_event", "gen_heartbeat"})
    /\ \A q \in 1 .. MaxLoopQueue : \A k \in 1 .. MaxMail :
          LiveWith(q, k) ~> SentFromQueue(q, k)

\* C38 witness: a stream in its live loop has sent the three events that were
\* put into its queue, in queue order, with a heartbeat between two of them,
\* and waits on its empty queue
C38_Witness ==
    \E q \in DOMAIN streams :
        /\ streams[q].state = "LIVE"
        /\ Len(items[q]) = 3 /\ taken[q] = 3 /\ InHand(q) = {}
        /\ \E a \in FromQueue(q), h \in TaggedAt(q, "gen_heartbeat"), b \in FromQueue(q) :
              /\ a < h /\ h < b
              /\ emitted[q][b] = Format(items[q][3])
        /\ Cardinality(FromQueue(q)) = 3


\* the slugs queue q is registered under
RegisteredUnder(q) == {s \in DOMAIN connections : q \in connections[s]}

\* C39: registry shape. In every state, which is a state between critical
\* sections since no critical section contains an await, no slug of
\* _connections has an empty set, every slug of _connections has an entry in
\* _event_history, and no queue is registered under two slugs.
C39_RegistryShape ==
    /\ \A s \in DOMAIN connections :
          /\ connections[s] # {}
          /\ connections[s] \subseteq Queues
          /\ s \in DOMAIN event_history
    /\ \A q \in Queues : Cardinality(RegisteredUnder(q)) <= 1

\* C39 witness: both slugs had a queue registered; the only queue of one of
\* them was removed, and that slug is no longer in _connections while its
\* replay buffer is still there and the other slug keeps its queue
C39_Witness ==
    \E s \in Topics, o \in Topics :
        /\ s # o
        /\ removals[s] = 1
        /\ s \notin DOMAIN connections /\ s \in DOMAIN event_history
        /\ o \in DOMAIN connections
        /\ \E q \in Queues, r \in Queues :
              /\ qslug[q] = s /\ RegisteredUnder(q) = {}
              /\ qslug[r] = o /\ RegisteredUnder(r) = {o}

====
